---------------------------- MODULE Spec2Model ----------------------------
(***************************************************************************)
(* A model of tbx_to_excel_converter.py (class TBXConverter and main).     *)
(*                                                                         *)
(* Representation.                                                         *)
(*   - A Python str is a TLA+ string; characters are read with SubSeq,     *)
(*     so formatting (f-strings), split('_'), isdigit(), lower(), strip()  *)
(*     and sorted() are computed character by character.                   *)
(*     The characters are chr(1)..chr(255) without the backquote.         *)
(*   - An XML element (xml.etree.ElementTree.Element) is a record          *)
(*     [tag, attrib, text, tail, children]; text and tail "" stand for     *)
(*     both None and '' (the code only ever reads (elem.text or ''));      *)
(*     attrib is a Python dict, its keys in document order.  The identity  *)
(*     of an element is its path (sequence of child indexes) from the      *)
(*     element a search starts at.                                         *)
(*   - A call that can raise is a record with a field error, the name of   *)
(*     the exception type raised or "" when the call returns, next to      *)
(*     what the call returns.                                              *)
(*   - A Python dict is an ordered dictionary [keys, vals]: keys is the    *)
(*     insertion order, vals the mapping.                                  *)
(*   - A pandas DataFrame is [columns, cells]: cells[r][c] is the cell of  *)
(*     row r in the c-th column; a cell is [na, v] and NaN is the cell     *)
(*     with na = TRUE.                                                     *)
(***************************************************************************)
EXTENDS Integers, Sequences, FiniteSets, TLC

VARIABLES
    doc,              \* the input file: [exists, wellformed, root]
    pc,               \* position of main(): start, selected, configured, parsed, done,
                      \* exit (sys.exit(1)), raised (an exception nothing catches);
                      \* extract, extracted for a direct call of _extract_term_info
    mode,             \* "auto" (--auto), "interactive", or "" before main chose
    answers,          \* what the user typed at the prompts, in order
    namespace,        \* self.namespace (a dict prefix -> '{uri}')
    available_fields, \* self.available_fields (a set of str)
    selected_fields,  \* self.selected_fields (a list of str)
    field_mappings,   \* self.field_mappings (a dict)
    entries_data,     \* self.entries_data (a dict entry_id -> entry_data)
    terms_data,       \* self.terms_data (a list of row dicts)
    df,               \* the DataFrame to_excel hands to the writer
    call_lang_grp,    \* the argument of a direct call of _extract_term_info
    call_lang_info    \* what that call returned

vars == <<doc, pc, mode, answers, namespace, available_fields, selected_fields,
          field_mappings, entries_data, terms_data, df, call_lang_grp, call_lang_info>>

-----------------------------------------------------------------------------
(* Python str operations *)

\* s[i] (1-based)
Ch(s, i) == SubSeq(s, i, i)

\* The characters of the model are chr(1)..chr(255) without the backquote
\* chr(96), which a TLA+ string cannot hold: Below96[n] is chr(n) and
\* Above96[n] is chr(96 + n).
Below96 ==
    "\t\n\f\r" \o
    " !\"#$%&'()*+,-./0123456789:;<=>?" \o
    "@ABCDEFGHIJKLMNOPQRSTUVWXYZ[\\]^_"
Above96 ==
    "abcdefghijklmnopqrstuvwxyz{|}~" \o
    "" \o
    " ¡¢£¤¥¦§¨©ª«¬­®¯°±²³´µ¶·¸¹º»¼½¾¿" \o
    "ÀÁÂÃÄÅÆÇÈÉÊËÌÍÎÏÐÑÒÓÔÕÖ×ØÙÚÛÜÝÞß" \o
    "àáâãäåæçèéêëìíîïðñòóôõö÷øùúûüýþÿ"

\* chr(n)
Chr(n) == IF n < 96 THEN Ch(Below96, n) ELSE Ch(Above96, n - 96)

\* the code point of each character (CodePointsIn: of each of the characters
\* chr(low)..chr(high))
CodePoints ==
    LET RECURSIVE CodePointsIn(_, _)
        CodePointsIn(low, high) ==
            IF low = high THEN Chr(low) :> low
            ELSE CodePointsIn(low, (low + high) \div 2)
                 @@ CodePointsIn((low + high) \div 2 + 1, high)
    IN CodePointsIn(1, 95) @@ CodePointsIn(97, 255)

\* ord(c)
Ord(c) == CodePoints[c]

\* the decimal digits (the characters c with c.isdecimal(), and what \d of
\* a str pattern matches)
Digits == "0123456789"

\* the characters c with c.isspace(), which are also what \s of a str pattern
\* matches: chr(9)..chr(13), chr(28)..chr(32), chr(133) and chr(160)
Whitespace == {Chr(n) : n \in (9..13) \cup (28..32) \cup {133, 160}}

\* c in s, for a single character c
CharIn(c, s) == \E i \in 1..Len(s) : Ch(s, i) = c

\* c.lower(): the letters A..Z, and chr(192)..chr(222) but for the
\* multiplication sign chr(215), have their lower-case letter 32 code points
\* on
LowerCh(c) ==
    LET Lowered(n) == IF n \in 65..90 \/ (n \in 192..222 /\ n # 215) THEN Chr(n + 32)
                      ELSE c
    IN Lowered(Ord(c))

\* s.lower(): the lower case of each character
RECURSIVE Lower(_)
Lower(s) ==
    IF s = "" THEN ""
    ELSE IF Len(s) = 1 THEN LowerCh(s)
    ELSE Lower(SubSeq(s, 1, Len(s) \div 2)) \o Lower(SubSeq(s, Len(s) \div 2 + 1, Len(s)))

\* sub in s
Contains(s, sub) ==
    \E i \in 1..(Len(s) - Len(sub) + 1) : SubSeq(s, i, i + Len(sub) - 1) = sub

\* s.startswith(p)
StartsWith(s, p) == Len(s) >= Len(p) /\ SubSeq(s, 1, Len(p)) = p

\* s.endswith(p)
EndsWith(s, p) == Len(s) >= Len(p) /\ SubSeq(s, Len(s) - Len(p) + 1, Len(s)) = p

\* s.isdecimal()
IsDecimal(s) == s # "" /\ \A i \in 1..Len(s) : CharIn(Ch(s, i), Digits)

\* s.isdigit(): the decimal digits and the superscripts chr(178), chr(179)
\* and chr(185)
IsDigit(s) ==
    s # "" /\ \A i \in 1..Len(s) :
                 CharIn(Ch(s, i), Digits) \/ Ch(s, i) \in {Chr(178), Chr(179), Chr(185)}

\* s without the characters of a set at its start, and at its end
LStripOf(s, chars) ==
    IF \A i \in 1..Len(s) : Ch(s, i) \in chars THEN ""
    ELSE SubSeq(s, CHOOSE i \in 1..Len(s) : /\ Ch(s, i) \notin chars
                                            /\ \A k \in 1..(i - 1) : Ch(s, k) \in chars,
                Len(s))
RStripOf(s, chars) ==
    IF \A i \in 1..Len(s) : Ch(s, i) \in chars THEN ""
    ELSE SubSeq(s, 1, CHOOSE i \in 1..Len(s) : /\ Ch(s, i) \notin chars
                                               /\ \A k \in (i + 1)..Len(s) : Ch(s, k) \in chars)

\* s.strip()
Strip(s) == RStripOf(LStripOf(s, Whitespace), Whitespace)

\* s.split(sep), for a one-character separator
SplitOn(s, sep) ==
    LET RECURSIVE SplitFrom(_)
        \* the parts of s from the position start on
        SplitFrom(start) ==
            IF \A i \in start..Len(s) : Ch(s, i) # sep THEN <<SubSeq(s, start, Len(s))>>
            ELSE LET i == CHOOSE i \in start..Len(s) :
                              /\ Ch(s, i) = sep
                              /\ \A k \in start..(i - 1) : Ch(s, k) # sep
                 IN <<SubSeq(s, start, i - 1)>> \o SplitFrom(i + 1)
    IN SplitFrom(1)

\* s.split('_')
Split(s) == SplitOn(s, "_")

\* int(s) for a string of decimal digits
RECURSIVE ParseInt(_)
ParseInt(s) ==
    IF Len(s) = 0 THEN 0
    ELSE 10 * ParseInt(SubSeq(s, 1, Len(s) - 1))
         + ((CHOOSE i \in 1..Len(Digits) : Ch(Digits, i) = Ch(s, Len(s))) - 1)

\* s without its underscores
RECURSIVE DropUnderscores(_)
DropUnderscores(s) ==
    IF Len(s) <= 1 THEN (IF s = "_" THEN "" ELSE s)
    ELSE DropUnderscores(SubSeq(s, 1, Len(s) \div 2))
         \o DropUnderscores(SubSeq(s, Len(s) \div 2 + 1, Len(s)))

\* s after the sign int() accepts in front of the digits
Unsigned(s) == IF s # "" /\ Ch(s, 1) \in {"+", "-"} THEN SubSeq(s, 2, Len(s)) ELSE s

\* s without the blanks int() drops around the number: those of str.strip()
\* but for chr(28)..chr(31)
IntStrip(s) ==
    LET Stripped(blanks) == RStripOf(LStripOf(s, blanks), blanks)
    IN Stripped(Whitespace \ {Chr(n) : n \in 28..31})

\* does int(s) return (else it raises ValueError): blanks around, one sign,
\* then decimal digits, single underscores allowed between two digits
IsIntLiteral(s) ==
    LET Literal(body) ==
            /\ body # ""
            /\ \A i \in 1..Len(body) : CharIn(Ch(body, i), Digits) \/ Ch(body, i) = "_"
            /\ Ch(body, 1) # "_" /\ Ch(body, Len(body)) # "_"
            /\ ~Contains(body, "__")
    IN Literal(Unsigned(IntStrip(s)))

\* int(s), where it returns
IntOf(s) ==
    LET Signed(t, n) == IF Ch(t, 1) = "-" THEN 0 - n ELSE n
        Value(t) == Signed(t, ParseInt(DropUnderscores(Unsigned(t))))
    IN Value(IntStrip(s))

\* '_'.join(parts)
RECURSIVE Join(_)
Join(parts) ==
    IF Len(parts) = 0 THEN ""
    ELSE IF Len(parts) = 1 THEN parts[1]
    ELSE parts[1] \o "_" \o Join(Tail(parts))

\* str(n) for n >= 0
RECURSIVE ToStr(_)
ToStr(n) ==
    IF n < 10 THEN Ch(Digits, n + 1) ELSE ToStr(n \div 10) \o Ch(Digits, (n % 10) + 1)

\* a < b for str (code point order): a is a proper prefix of b, or has the
\* lower code point where they first differ
StrLess(a, b) ==
    \/ Len(a) < Len(b) /\ SubSeq(b, 1, Len(a)) = a
    \/ \E i \in 1..(IF Len(a) < Len(b) THEN Len(a) ELSE Len(b)) :
          /\ SubSeq(a, 1, i - 1) = SubSeq(b, 1, i - 1)
          /\ Ch(a, i) # Ch(b, i)
          /\ Ord(Ch(a, i)) < Ord(Ch(b, i))

\* sorted(list(S)) for a set of str
RECURSIVE Sorted(_)
Sorted(S) ==
    IF S = {} THEN << >>
    ELSE LET Least(m) == <<m>> \o Sorted(S \ {m})
         IN Least(CHOOSE x \in S : \A y \in S \ {x} : StrLess(x, y))

\* the elements of a list, as a set
Range(seq) == {seq[i] : i \in 1..Len(seq)}

-----------------------------------------------------------------------------
(* Python dict: insertion-ordered *)

EmptyDict == [keys |-> << >>, vals |-> << >>]

HasKey(d, k) == k \in Range(d.keys)

\* d[k] = v
Put(d, k, v) ==
    [keys |-> IF HasKey(d, k) THEN d.keys ELSE Append(d.keys, k),
     vals |-> [x \in Range(d.keys) \cup {k} |-> IF x = k THEN v ELSE d.vals[x]]]

\* d.get(k, default)
Get(d, k, default) == IF HasKey(d, k) THEN d.vals[k] ELSE default

-----------------------------------------------------------------------------
(* xml.etree.ElementTree *)

\* the key ElementTree gives the attribute xml:lang of a parsed document
XmlLangKey == "{http://www.w3.org/XML/1998/namespace}lang"

\* the URI _register_namespaces seeds for the prefix ''
TbxUri == "http://www.lisa.org/TBX-Specification.33.0.html"

\* no attributes
NoAttr == EmptyDict

\* elem.get(key, default)
AttrGet(elem, key, default) == Get(elem.attrib, key, default)

\* the paths of elem.iter(): the element itself, then its descendants in
\* document order
RECURSIVE IterPaths(_)
RECURSIVE ChildIterPaths(_, _)
IterPaths(elem) == <<<< >>>> \o ChildIterPaths(elem, 1)

\* the paths of the descendants of elem from its i-th child on
ChildIterPaths(elem, i) ==
    IF i > Len(elem.children) THEN << >>
    ELSE LET sub == IterPaths(elem.children[i])
         IN [j \in 1..Len(sub) |-> <<i>> \o sub[j]] \o ChildIterPaths(elem, i + 1)

\* the element at a path below elem
RECURSIVE NodeAt(_, _)
NodeAt(elem, path) ==
    IF path = << >> THEN elem ELSE NodeAt(elem.children[Head(path)], Tail(path))

\* list(elem.iter()): the element itself, then its descendants in document
\* order
RECURSIVE Iter(_)
RECURSIVE ChildIter(_, _)
Iter(elem) == <<elem>> \o ChildIter(elem.children, 1)

\* the descendants of the children of an element from the i-th child on
ChildIter(children, i) ==
    IF i > Len(children) THEN << >>
    ELSE Iter(children[i]) \o ChildIter(children, i + 1)

\* the elements at a list of paths below elem
Elems(elem, paths) == [k \in 1..Len(paths) |-> NodeAt(elem, paths[k])]

\* "".join(elem.itertext()): the text of the element, then for each child its
\* own inner text and its tail
RECURSIVE IterText(_)
RECURSIVE ChildText(_, _)
IterText(elem) == elem.text \o ChildText(elem.children, 1)

\* the inner texts and tails of the children of an element from the i-th on
ChildText(children, i) ==
    IF i > Len(children) THEN ""
    ELSE IterText(children[i]) \o children[i].tail \o ChildText(children, i + 1)

-----------------------------------------------------------------------------
(* xml.etree.ElementPath, and Element.find and Element.findall *)

\* What a search gives: the exception it raises ("" when it returns) and the
\* elements it yielded before that, as paths below the element searched.
Found(paths) == [error |-> "", paths |-> paths]
Fails(error) == [error |-> error, paths |-> << >>]

\* the characters no tag token of a path holds: / [ ] ( ) @ ! = and \s
TagStops == {"/", "[", "]", "(", ")", "@", "!", "="} \cup Whitespace

\* the operator tokens of one and of two characters
Ops1 == {"/", ".", "*", ":", "[", "]", "(", ")", "@", "="}
Ops2 == {"::", "//", "..", "()", "!="}

\* the first position from i on of a character that is in chars (member =
\* TRUE) or is not (member = FALSE); Len(pattern) + 1 when there is none
Scan(pattern, i, chars, member) ==
    LET hits == {j \in i..Len(pattern) : (Ch(pattern, j) \in chars) = member}
    IN IF hits = {} THEN Len(pattern) + 1 ELSE CHOOSE j \in hits : \A k \in hits : j <= k

\* xpath_tokenizer raises SyntaxError where it reads a tag with a prefix (no
\* prefix map is passed); this token stands for the raise
BadToken == <<"SyntaxError", "">>

\* the token (ttype, tag) of a tag
TagToken(tag) == IF Ch(tag, 1) # "{" /\ Contains(tag, ":") THEN BadToken ELSE <<"", tag>>

\* list(xpath_tokenizer(pattern)), from position i of the pattern on: at each
\* position a quoted string, an operator, a tag (with a '{uri}' in front
\* where a tag character follows the '}'), or a run of blanks (the token
\* ('', '')); a '!' alone is skipped
RECURSIVE Tokens(_, _)
Tokens(pattern, i) ==
    LET c == Ch(pattern, i)
        \* is there a '{uri}' at position i, close being the position of the
        \* first '}' after i
        Braced(close) == /\ c = "{"
                         /\ close > i + 1
                         /\ close < Len(pattern)
                         /\ Ch(pattern, close + 1) \notin TagStops
        \* the position after the tag that starts at position i
        TagEnd(close) ==
            Scan(pattern, IF Braced(close) THEN close + 1 ELSE i, TagStops, TRUE)
        Lexed(quote, stop, blank) ==
            IF c \in {"'", "\""} /\ quote <= Len(pattern)
            THEN <<<<SubSeq(pattern, i, quote), "">>>> \o Tokens(pattern, quote + 1)
            ELSE IF i < Len(pattern) /\ SubSeq(pattern, i, i + 1) \in Ops2
            THEN <<<<SubSeq(pattern, i, i + 1), "">>>> \o Tokens(pattern, i + 2)
            ELSE IF c \in Ops1
            THEN <<<<c, "">>>> \o Tokens(pattern, i + 1)
            ELSE IF c \notin TagStops
            THEN <<TagToken(SubSeq(pattern, i, stop - 1))>> \o Tokens(pattern, stop)
            ELSE IF c \in Whitespace
            THEN <<<<"", "">>>> \o Tokens(pattern, blank)
            ELSE Tokens(pattern, i + 1)
    IN IF i > Len(pattern) THEN << >>
       ELSE Lexed(Scan(pattern, i + 1, {c}, TRUE),
                  TagEnd(Scan(pattern, i + 1, {"}"}, TRUE)),
                  Scan(pattern, i, Whitespace, FALSE))

\* one function of a selector: what it does (kind) and the tag, attribute
\* key, value or index it does it with
Step(kind, tag, key, value, index) ==
    [kind |-> kind, tag |-> tag, wildcard |-> FALSE, key |-> key, value |-> value,
     index |-> index]

\* _is_wildcard_tag(tag)
IsWildcardTag(tag) == StartsWith(tag, "{*}") \/ EndsWith(tag, "}*")

\* the function prepare_child or prepare_descendant builds for a tag: for a
\* wildcard tag the test of _prepare_tag, else the comparison with the tag
\* without a '{}' in front
TagStep(kind, tag) ==
    [Step(kind,
          IF ~IsWildcardTag(tag) /\ StartsWith(tag, "{}") THEN SubSeq(tag, 3, Len(tag))
          ELSE tag,
          "", "", 0)
        EXCEPT !.wildcard = IsWildcardTag(tag)]

\* None in a selector
NoStep == Step("none", "", "", "", 0)

\* what a prepare function gives: the exception it raises ("" when it
\* returns), the step, and the position of the first token it did not read
Prepared(step, next) == [error |-> "", step |-> step, next |-> next]
NotPrepared(error) == [error |-> error, step |-> NoStep, next |-> 0]

\* "".join(strings)
RECURSIVE JoinAll(_)
JoinAll(strings) ==
    IF Len(strings) = 0 THEN "" ELSE Head(strings) \o JoinAll(Tail(strings))

\* re.match(r"\-?\d+$", s), for s without blanks
IsIndex(s) == IsDecimal(IF StartsWith(s, "-") THEN SubSeq(s, 2, Len(s)) ELSE s)

\* prepare_descendant, the token '//' at position i
PrepareDescendant(tokens, i) ==
    IF i + 1 > Len(tokens) THEN Prepared(NoStep, i + 1)
    ELSE LET token == tokens[i + 1]
         IN IF token = BadToken THEN NotPrepared("SyntaxError")
            ELSE IF token[1] = "*" THEN Prepared(TagStep("descendant", "*"), i + 2)
            ELSE IF token[1] = ""
            THEN Prepared(TagStep("descendant", token[2]), i + 2)
            ELSE NotPrepared("SyntaxError")

\* prepare_predicate, the token '[' at position i
PreparePredicate(tokens, i) ==
    LET ends == {j \in (i + 1)..Len(tokens) : tokens[j] = BadToken \/ tokens[j][1] = "]"}
        close == CHOOSE j \in ends : \A k \in ends : j <= k
        IsQuoted(t) == t[1] # "" /\ Ch(t[1], 1) \in {"'", "\""}
        Signature(inner) ==
            JoinAll([k \in 1..Len(inner) |->
                       IF IsQuoted(inner[k]) THEN "'"
                       ELSE IF inner[k][1] = "" THEN "-" ELSE inner[k][1]])
        Predicate(inner) ==
            [k \in 1..Len(inner) |->
                IF IsQuoted(inner[k])
                THEN SubSeq(inner[k][1], 2, Len(inner[k][1]) - 1) ELSE inner[k][2]]
        Indexed(index) == IF index < 0 THEN NotPrepared("SyntaxError")
                          ELSE Prepared(Step("index", "", "", "", index), close + 1)
        FromLast(index) == IF index > 0 - 2 THEN NotPrepared("SyntaxError")
                           ELSE Prepared(Step("index", "", "", "", index), close + 1)
        ByType(signature, predicate, value, negated) ==
            IF signature = "@-"
            THEN Prepared(Step("has_attr", "", predicate[2], "", 0), close + 1)
            ELSE IF signature \in {"@-='", "@-!='"}
            THEN Prepared(Step(IF negated THEN "attr_ne" ELSE "attr_eq",
                               "", predicate[2], value, 0), close + 1)
            ELSE IF signature = "-" /\ ~IsIndex(predicate[1])
            THEN Prepared(Step("has_child", predicate[1], "", "", 0), close + 1)
            ELSE IF \/ signature \in {".='", ".!='"}
                    \/ signature \in {"-='", "-!='"} /\ ~IsIndex(predicate[1])
            THEN Prepared(Step(IF negated THEN "text_ne" ELSE "text_eq",
                               predicate[1], "", value, 0), close + 1)
            ELSE IF signature = "-"
            THEN IF StartsWith(predicate[1], "-") THEN NotPrepared("SyntaxError")
                 ELSE Indexed(ParseInt(predicate[1]) - 1)
            ELSE IF signature \in {"-()", "-()-"}
            THEN IF predicate[1] # "last" THEN NotPrepared("SyntaxError")
                 ELSE IF signature = "-()"
                 THEN Prepared(Step("index", "", "", "", 0 - 1), close + 1)
                 ELSE IF ~IsIntLiteral(predicate[3]) THEN NotPrepared("SyntaxError")
                 ELSE FromLast(IntOf(predicate[3]) - 1)
            ELSE NotPrepared("SyntaxError")
        Typed(signature, predicate) ==
            ByType(signature, predicate, predicate[Len(predicate)],
                   Contains(signature, "!="))
        Read(inner) == Typed(Signature(inner), Predicate(inner))
    IN IF ends = {} THEN Prepared(NoStep, Len(tokens) + 1)
       ELSE IF tokens[close] = BadToken THEN NotPrepared("SyntaxError")
       ELSE Read(SelectSeq(SubSeq(tokens, i + 1, close - 1), LAMBDA t : t # <<"", "">>))

\* ops[token[0]](next, token), the token at position i
Prepare(tokens, i) ==
    LET ttype == tokens[i][1]
    IN IF ttype = "" THEN Prepared(TagStep("child", tokens[i][2]), i + 1)
       ELSE IF ttype = "*" THEN Prepared(Step("star", "", "", "", 0), i + 1)
       ELSE IF ttype = "." THEN Prepared(Step("self", "", "", "", 0), i + 1)
       ELSE IF ttype = ".." THEN Prepared(Step("parent", "", "", "", 0), i + 1)
       ELSE IF ttype = "//" THEN PrepareDescendant(tokens, i)
       ELSE IF ttype = "[" THEN PreparePredicate(tokens, i)
       ELSE NotPrepared("KeyError")

\* the selector iterfind compiles from the token at position i on: the
\* exception raised ("" when there is none) and the list of steps
RECURSIVE Selector(_, _)
Selector(tokens, i) ==
    LET PastSlash(k) == IF k <= Len(tokens) /\ tokens[k][1] = "/" THEN k + 1 ELSE k
        Chained(prepared, next, rest) ==
            IF prepared.error # "" THEN [error |-> prepared.error, steps |-> << >>]
            ELSE IF next > Len(tokens) THEN [error |-> "", steps |-> <<prepared.step>>]
            ELSE IF rest.error # "" THEN rest
            ELSE [error |-> "", steps |-> <<prepared.step>> \o rest.steps]
        Following(prepared) ==
            Chained(prepared, PastSlash(prepared.next),
                    Selector(tokens, PastSlash(prepared.next)))
    IN Following(IF tokens[i] = BadToken THEN NotPrepared("SyntaxError")
                 ELSE Prepare(tokens, i))

\* iterfind's compilation of a path: the exception raised ("" when there is
\* none; TypeError stands for the path without token, where iterfind returns
\* None) and the steps of the selector
Compile(pattern) ==
    LET Compiling(tokens, selector) ==
            IF StartsWith(pattern, "/") THEN [error |-> "SyntaxError", steps |-> << >>]
            ELSE IF Len(tokens) = 0 THEN [error |-> "TypeError", steps |-> << >>]
            ELSE selector
    IN Compiling(Tokens(pattern, 1), Selector(Tokens(pattern, 1), 1))

\* the paths the converter searches with, whatever the document: the plain
\* ones, and those in the default namespace it seeds
SearchedPaths ==
    LET tags == {"termEntry", "langSet", "langGrp", "tig", "termGrp", "term"}
    IN {".//" \o tag : tag \in tags} \cup {".//{" \o TbxUri \o "}" \o tag : tag \in tags}

\* _cache, with the selectors of these paths
Cache == [pattern \in SearchedPaths |-> Compile(pattern)] @@ << >>

\* the selector of a path: the one _cache holds, else a new one
Compiled(pattern) ==
    IF pattern \in SearchedPaths THEN Cache[pattern] ELSE Compile(pattern)

\* does the test _prepare_tag(tag) builds let an element tag through (tags
\* of elements are not empty)
WildcardSelects(el_tag, tag) ==
    IF tag = "{*}*" THEN TRUE
    ELSE IF tag = "{}*" THEN ~StartsWith(el_tag, "{")
    ELSE IF StartsWith(tag, "{*}")
    THEN el_tag = SubSeq(tag, 4, Len(tag)) \/ EndsWith(el_tag, SubSeq(tag, 3, Len(tag)))
    ELSE StartsWith(el_tag, SubSeq(tag, 1, Len(tag) - 1))

\* does the step prepare_child builds yield a child with this tag
ChildSelects(el_tag, step) ==
    IF step.wildcard THEN WildcardSelects(el_tag, step.tag) ELSE el_tag = step.tag

\* does the step prepare_descendant builds yield a descendant with this tag
DescendantSelects(el_tag, step) ==
    IF step.wildcard THEN WildcardSelects(el_tag, step.tag)
    ELSE step.tag = "*" \/ el_tag = step.tag

\* the paths of the descendants of elem (the element at path p) the step
\* yields, from the i-th child of elem on, in document order
RECURSIVE Descendants(_, _, _, _)
Descendants(elem, p, i, step) ==
    IF i > Len(elem.children) THEN << >>
    ELSE (IF DescendantSelects(elem.children[i].tag, step) THEN <<Append(p, i)>> ELSE << >>)
         \o Descendants(elem.children[i], Append(p, i), 1, step)
         \o Descendants(elem, p, i + 1, step)

\* checkpath(tag) of the C implementation of Element: does find or findall
\* hand the path to ElementPath (it has one of / * [ @ . outside braces, or
\* starts with '{}' or '{*}' and has three characters or more)
CheckPath(tag) ==
    LET Checked(i) == \A k \in 1..(i - 1) :
                         Ch(tag, k) = "{" => \E m \in (k + 1)..(i - 1) : Ch(tag, m) = "}"
    IN \/ Len(tag) >= 3 /\ (StartsWith(tag, "{}") \/ StartsWith(tag, "{*}"))
       \/ \E i \in 1..Len(tag) : Ch(tag, i) \in {"/", "*", "[", "@", "."} /\ Checked(i)

\* the paths of the children of elem whose tag is tag
ChildrenTagged(elem, tag) ==
    SelectSeq([c \in 1..Len(elem.children) |-> <<c>>],
              LAMBDA q : elem.children[q[1]].tag = tag)

RECURSIVE IterFind(_, _)
RECURSIVE Find(_, _)
RECURSIVE FindAll(_, _)
RECURSIVE StepYield(_, _, _, _)
RECURSIVE Select(_, _, _, _, _)
RECURSIVE Execute(_, _, _, _)

\* what one step yields for the element at path p below root (out is what
\* the step yielded for the elements before it)
StepYield(root, step, p, out) ==
  LET Yield(elem, nested) ==
    LET kind == step.kind
        Below(qs) == [k \in 1..Len(qs) |-> p \o qs[k]]
        Keep(b) == Found(IF b THEN <<p>> ELSE << >>)
        children == [c \in 1..Len(elem.children) |-> <<c>>]
        siblings == nested.paths
        position == IF step.index >= 0 THEN step.index + 1
                    ELSE Len(siblings) + step.index + 1
    IN CASE kind = "child" ->
              Found(Below(SelectSeq(children,
                      LAMBDA q : ChildSelects(elem.children[q[1]].tag, step))))
         [] kind = "star" -> Found(Below(children))
         [] kind = "self" -> Found(<<p>>)
         [] kind = "parent" ->
              Found(IF Len(p) > 0 /\ SubSeq(p, 1, Len(p) - 1) \notin Range(out)
                    THEN <<SubSeq(p, 1, Len(p) - 1)>> ELSE << >>)
         [] kind = "descendant" -> Found(Descendants(elem, p, 1, step))
         [] kind = "has_attr" -> Keep(HasKey(elem.attrib, step.key))
         [] kind = "attr_eq" ->
              Keep(HasKey(elem.attrib, step.key) /\ elem.attrib.vals[step.key] = step.value)
         [] kind = "attr_ne" ->
              Keep(HasKey(elem.attrib, step.key) /\ elem.attrib.vals[step.key] # step.value)
         [] kind = "has_child" ->
              IF nested.error # "" THEN Fails(nested.error) ELSE Keep(Len(nested.paths) > 0)
         [] kind = "text_eq" ->
              IF step.tag = "" THEN Keep(IterText(elem) = step.value)
              ELSE IF nested.error # "" THEN Fails(nested.error)
              ELSE Keep(\E k \in 1..Len(nested.paths) :
                           IterText(NodeAt(elem, nested.paths[k])) = step.value)
         [] kind = "text_ne" ->
              IF step.tag = "" THEN Keep(IterText(elem) # step.value)
              ELSE IF \E k \in 1..Len(nested.paths) :
                         IterText(NodeAt(elem, nested.paths[k])) # step.value
              THEN Keep(TRUE)
              ELSE IF nested.error # "" THEN Fails(nested.error) ELSE Keep(FALSE)
         [] kind = "index" ->
              IF Len(p) = 0 \/ nested.error = "KeyError" THEN Keep(FALSE)
              ELSE IF nested.error # "" THEN Fails(nested.error)
              ELSE Keep(/\ position \in 1..Len(siblings)
                        /\ SubSeq(p, 1, Len(p) - 1) \o siblings[position] = p)
      \* the search a predicate makes below the element, or for [index] below
      \* its parent
      Nested(elem) ==
          IF step.kind = "has_child" THEN Find(elem, step.tag)
          ELSE IF step.kind = "text_eq" THEN FindAll(elem, step.tag)
          ELSE IF step.kind = "text_ne" THEN IterFind(elem, step.tag)
          ELSE FindAll(NodeAt(root, SubSeq(p, 1, Len(p) - 1)), elem.tag)
  IN Yield(NodeAt(root, p), Nested(NodeAt(root, p)))

\* select(context, result) of one step, from the i-th element of result on:
\* result is lazy, the exception of the step for an element comes before
\* the exception that ends result
Select(root, step, result, i, out) ==
    LET Yielded(yield) ==
            IF yield.error # "" THEN [error |-> yield.error, paths |-> out \o yield.paths]
            ELSE Select(root, step, result, i + 1, out \o yield.paths)
    IN IF i > Len(result.paths) THEN [error |-> result.error, paths |-> out]
       ELSE Yielded(StepYield(root, step, result.paths[i], out))

\* the loop over the selector, from its k-th step on; calling None raises
\* TypeError before any element is read
Execute(root, selector, k, result) ==
    IF selector.error # "" THEN Fails(selector.error)
    ELSE IF \E j \in k..Len(selector.steps) : selector.steps[j].kind = "none"
    THEN Fails("TypeError")
    ELSE IF k > Len(selector.steps) THEN result
    ELSE Execute(root, selector, k + 1, Select(root, selector.steps[k], result, 1, << >>))

\* ElementPath.iterfind(elem, path), read to its end
IterFind(elem, path) ==
    Execute(elem, Compiled(IF EndsWith(path, "/") THEN path \o "*" ELSE path), 1,
            Found(<<<< >>>>))

\* elem.find(path): at most one path, of the first element found
Find(elem, path) ==
    LET First(all) == IF Len(all.paths) > 0 THEN Found(<<all.paths[1]>>) ELSE all
    IN First(IF CheckPath(path) THEN IterFind(elem, path)
             ELSE Found(ChildrenTagged(elem, path)))

\* elem.findall(path)
FindAll(elem, path) ==
    IF CheckPath(path) THEN IterFind(elem, path) ELSE Found(ChildrenTagged(elem, path))

-----------------------------------------------------------------------------
(* TBXConverter._register_namespaces, and the search for the entries *)

\* a list without its repeated elements, first occurrences kept in order:
\* list({id(x): x for x in xs}.values()), an element's id being its path
RECURSIVE DedupById(_)
DedupById(paths) ==
    IF Len(paths) = 0 THEN << >>
    ELSE LET init == DedupById(SubSeq(paths, 1, Len(paths) - 1))
             last == paths[Len(paths)]
         IN IF last \in Range(init) THEN init ELSE Append(init, last)

\* common_namespaces after the loop over the first n attributes of the root:
\* the seeded URIs, and the value of every attribute whose name starts with
\* xmlns under the name after 'xmlns:', or under '' (ElementTree keeps no
\* xmlns declaration among the attributes of a parsed document, so in a
\* parsed document these are ordinary attributes such as xmlnsq)
RECURSIVE CommonNamespaces(_, _)
CommonNamespaces(attrib, n) ==
    IF n = 0
    THEN Put(Put(Put(EmptyDict, "", TbxUri),
                 "xml", "http://www.w3.org/XML/1998/namespace"),
             "xlink", "http://www.w3.org/1999/xlink")
    ELSE LET init == CommonNamespaces(attrib, n - 1)
             prefix == attrib.keys[n]
             ns_prefix == IF StartsWith(prefix, "xmlns:")
                          THEN SubSeq(prefix, 7, Len(prefix)) ELSE ""
         IN IF StartsWith(prefix, "xmlns")
            THEN Put(init, ns_prefix, attrib.vals[prefix]) ELSE init

\* does ET.register_namespace(prefix, uri) raise ValueError: the prefix
\* matches ns\d+$
ReservedPrefix(prefix) ==
    LET name == IF Len(prefix) > 0 /\ Ch(prefix, Len(prefix)) = "\n"
                THEN SubSeq(prefix, 1, Len(prefix) - 1) ELSE prefix
    IN StartsWith(name, "ns") /\ IsDecimal(SubSeq(name, 3, Len(name)))

\* the loop that registers the prefixes of common from the i-th on; it ends
\* where register_namespace raises
RECURSIVE RegisterPrefixes(_, _, _)
RegisterPrefixes(ns, common, i) ==
    IF i > Len(common.keys) THEN ns
    ELSE LET prefix == common.keys[i]
             uri == "{" \o common.vals[prefix] \o "}"
         IN IF prefix = "" THEN RegisterPrefixes(Put(ns, "default", uri), common, i + 1)
            ELSE IF ReservedPrefix(prefix) THEN ns
            ELSE RegisterPrefixes(Put(ns, prefix, uri), common, i + 1)

\* does _register_namespaces(root) raise
RegisterRaises(root) ==
    \E prefix \in Range(CommonNamespaces(root.attrib, Len(root.attrib.keys)).keys) :
        prefix # "" /\ ReservedPrefix(prefix)

\* self.namespace after _register_namespaces(root), ns being self.namespace
\* before
RegisterNamespaces(ns, root) ==
    RegisterPrefixes(ns, CommonNamespaces(root.attrib, Len(root.attrib.keys)), 1)

\* the termEntry elements of the document: the exception raised ("" when
\* there is none) and the list term_entries
TermEntries(root) ==
    LET Searched(findall, default, any) ==
            IF Len(findall[".//termEntry"].paths) > 0
            THEN [error |-> "", entries |-> Elems(root, findall[".//termEntry"].paths)]
            ELSE IF findall[".//" \o default \o "termEntry"].error # ""
            THEN [error |-> findall[".//" \o default \o "termEntry"].error,
                  entries |-> << >>]
            ELSE IF Len(findall[".//" \o default \o "termEntry"].paths) > 0
            THEN [error |-> "",
                  entries |-> Elems(root, findall[".//" \o default \o "termEntry"].paths)]
            ELSE [error |-> "", entries |-> any]
    IN Searched([path \in STRING |-> FindAll(root, path)],
                RegisterNamespaces(EmptyDict, root).vals["default"],
                SelectSeq(Iter(root), LAMBDA n : Contains(Lower(n.tag), "termentry")))

-----------------------------------------------------------------------------
(* TBXConverter._scan_available_fields *)

\* how many entries the scan samples
SampleSize == 3

FallbackFields ==
    {"entry_id", "language", "term", "termNote_status", "termNote_forbidden",
     "termNote_preferred"}

\* the fields the scan adds for one element below a term group
ScanElemFields(elem) ==
    LET Fields(tag_name) ==
            IF tag_name = "term" THEN {"term"}
            ELSE IF Contains(tag_name, "note")
                 THEN {"termNote_" \o AttrGet(elem, "type", "note")}
            ELSE IF Contains(tag_name, "descrip")
                 THEN {"descrip_" \o AttrGet(elem, "type", "description")}
            ELSE IF tag_name \in {"definition", "context", "example", "note"}
                 THEN {tag_name}
            ELSE {}
    IN Fields(Lower(elem.tag))

\* the fields the scan adds for one term group
ScanTermGroupFields(term_grp) ==
    UNION {ScanElemFields(e) : e \in Range(Iter(term_grp))}

\* the fields the scan adds for one language group
ScanLangGroupFields(lang_grp) ==
    LET Scanned(findall) ==
            UNION {ScanTermGroupFields(tg) :
                      tg \in Range(Elems(lang_grp, findall[".//tig"].paths
                                                   \o findall[".//termGrp"].paths))}
    IN Scanned([path \in STRING |-> FindAll(lang_grp, path)])

\* the entry-level description fields the scan adds for one entry
ScanEntryLevelFields(entry) ==
    {"entry_descrip_" \o AttrGet(e, "type", "description") :
        e \in {x \in Range(Iter(entry)) : Contains(Lower(x.tag), "descrip")}}

\* the fields the scan adds for one sampled entry
ScanEntryFields(entry) ==
    LET Scanned(findall) ==
            UNION {ScanLangGroupFields(lg) :
                      lg \in Range(Elems(entry, findall[".//langSet"].paths
                                                \o findall[".//langGrp"].paths))}
    IN Scanned([path \in STRING |-> FindAll(entry, path)]) \cup ScanEntryLevelFields(entry)

\* a faulty variant of Prefix: the whole list (no [:3] on the entries)
PrefixAll(xs, n) == xs

\* the first n elements of a list: xs[:n]
Prefix(xs, n) == SubSeq(xs, 1, IF Len(xs) < n THEN Len(xs) ELSE n)

\* does the scan end in its except branch: ET.parse, the registration of
\* the namespaces or the search for the entries raises
ScanRaises(d) ==
    ~d.wellformed \/ RegisterRaises(d.root) \/ TermEntries(d.root).error # ""

\* a faulty variant of ScanAvailableFields: no except branch and no standard
\* fields, a document that does not parse leaves the set as it was
ScanAvailableFieldsUnguarded(d) ==
    LET Scanned(term_entries) ==
            IF ~d.wellformed \/ RegisterRaises(d.root) \/ term_entries.error # "" THEN {}
            ELSE UNION {ScanEntryFields(e) :
                           e \in Range(Prefix(term_entries.entries, SampleSize))}
    IN Scanned(TermEntries(d.root))

\* self.available_fields after _scan_available_fields() on an empty set
ScanAvailableFields(d) ==
    LET Scanned(term_entries) ==
            IF ~d.wellformed \/ RegisterRaises(d.root) \/ term_entries.error # ""
            THEN FallbackFields
            ELSE UNION {ScanEntryFields(e) :
                           e \in Range(Prefix(term_entries.entries, SampleSize))}
                 \cup {"entry_id", "language", "term"}
    IN Scanned(TermEntries(d.root))

\* self.namespace after _scan_available_fields() or parse_tbx(), ns being
\* self.namespace before
ParsedNamespace(ns, d) == IF d.wellformed THEN RegisterNamespaces(ns, d.root) ELSE ns

-----------------------------------------------------------------------------
(* TBXConverter._extract_term_info *)

\* a or b, for str
Or(a, b) == IF a # "" THEN a ELSE b

\* the language code of a language group
LangCode(lang_grp) ==
    Or(AttrGet(lang_grp, "xml:lang", ""),
       Or(AttrGet(lang_grp, "lang", ""), AttrGet(lang_grp, XmlLangKey, "")))

\* the element holding the term text of a term group: the exception raised
\* ("" when there is none) and, in found, << >> when there is no such
\* element, else the one-element list of it
TermElem(term_grp, ns) ==
    LET Chosen(find, default, any) ==
            IF Len(find[".//term"].paths) > 0
            THEN [error |-> "", found |-> Elems(term_grp, find[".//term"].paths)]
            ELSE IF Len(find["term"].paths) > 0
            THEN [error |-> "", found |-> Elems(term_grp, find["term"].paths)]
            ELSE IF HasKey(ns, "default") /\ find[".//" \o default \o "term"].error # ""
            THEN [error |-> find[".//" \o default \o "term"].error, found |-> << >>]
            ELSE IF HasKey(ns, "default") /\ Len(find[".//" \o default \o "term"].paths) > 0
            THEN [error |-> "",
                  found |-> Elems(term_grp, find[".//" \o default \o "term"].paths)]
            ELSE IF Len(any) > 0 THEN [error |-> "", found |-> <<any[1]>>]
            ELSE [error |-> "", found |-> << >>]
    IN Chosen([path \in STRING |-> Find(term_grp, path)],
              ns.vals["default"],
              SelectSeq(Iter(term_grp), LAMBDA n : Contains(Lower(n.tag), "term")))

\* the trimmed term text of a term element
TermText(term_elem) == Strip(term_elem.text)

\* {field: '' for field in selected if field != 'entry_id'}
RECURSIVE BlankFields(_)
BlankFields(selected) ==
    IF Len(selected) = 0 THEN EmptyDict
    ELSE LET init == BlankFields(SubSeq(selected, 1, Len(selected) - 1))
             field == selected[Len(selected)]
         IN IF field # "entry_id" THEN Put(init, field, "") ELSE init

\* one pass of the loop over term_grp.iter(): the element's text stored
\* under the field the element is classified into
StoreElem(term_data, elem, selected) ==
    LET Stored(tag_name, elem_text, note_field, descrip_field) ==
            IF elem_text = "" THEN term_data
            ELSE IF Contains(tag_name, "note")
                 THEN IF note_field \in Range(selected)
                      THEN Put(term_data, note_field, elem_text) ELSE term_data
            ELSE IF Contains(tag_name, "descrip")
                 THEN IF descrip_field \in Range(selected)
                      THEN Put(term_data, descrip_field, elem_text) ELSE term_data
            ELSE IF tag_name \in Range(selected)
                 THEN Put(term_data, tag_name, elem_text)
            ELSE term_data
    IN Stored(Lower(elem.tag), Strip(elem.text),
              "termNote_" \o AttrGet(elem, "type", "note"),
              "descrip_" \o AttrGet(elem, "type", "description"))

\* the loop over term_grp.iter()
RECURSIVE StoreElems(_, _, _)
StoreElems(term_data, elems, selected) ==
    IF Len(elems) = 0 THEN term_data
    ELSE StoreElems(StoreElem(term_data, Head(elems), selected), Tail(elems), selected)

\* the term_data of a kept term group
TermData(term_grp, term_text, selected, lang_code) ==
    LET Named(blank) == IF "term" \in Range(selected) THEN Put(blank, "term", term_text)
                        ELSE blank
    IN StoreElems(Named(Put(BlankFields(selected), "language", lang_code)),
                  Iter(term_grp), selected)

\* a faulty variant of SkipTerm: no test for a text seen before
SkipTermEmptyOnly(term_text, seen_terms) == term_text = ""

\* is a term group with this term text skipped: empty, or seen before
SkipTerm(term_text, seen_terms) == term_text = "" \/ term_text \in seen_terms

\* the loop over term_groups: the exception raised ("" when there is none)
\* and the list terms (as far as it was built)
RECURSIVE ExtractTerms(_, _, _, _, _)
ExtractTerms(term_groups, seen_terms, selected, lang_code, ns) ==
    LET Rest(seen) == ExtractTerms(Tail(term_groups), seen, selected, lang_code, ns)
        Kept(term_data, rest) == [error |-> rest.error, terms |-> <<term_data>> \o rest.terms]
        Looped(term_elem, term_text) ==
            IF term_elem.error # "" THEN [error |-> term_elem.error, terms |-> << >>]
            ELSE IF Len(term_elem.found) = 0 \/ SkipTerm(term_text, seen_terms)
            THEN Rest(seen_terms)
            ELSE Kept(TermData(Head(term_groups), term_text, selected, lang_code),
                      Rest(seen_terms \cup {term_text}))
        WithElem(term_elem) == Looped(term_elem, TermText(term_elem.found[1]))
    IN IF Len(term_groups) = 0 THEN [error |-> "", terms |-> << >>]
       ELSE WithElem(TermElem(Head(term_groups), ns))

\* the term groups of a language group, each element once and in the order
\* the loop visits them: the exception raised ("" when there is none) and
\* the list term_groups; ns is self.namespace
TermGroups(lang_grp, ns) ==
    LET Unique(paths) == [error |-> "", groups |-> Elems(lang_grp, DedupById(paths))]
        Extended(plain, tigs, grps) ==
            IF ~HasKey(ns, "default") THEN Unique(plain)
            ELSE IF tigs.error # "" THEN [error |-> tigs.error, groups |-> << >>]
            ELSE IF grps.error # "" THEN [error |-> grps.error, groups |-> << >>]
            ELSE Unique(plain \o tigs.paths \o grps.paths)
        Searched(findall, default) ==
            Extended(findall[".//tig"].paths \o findall["tig"].paths
                         \o findall[".//termGrp"].paths \o findall["termGrp"].paths,
                     findall[".//" \o default \o "tig"],
                     findall[".//" \o default \o "termGrp"])
    IN Searched([path \in STRING |-> FindAll(lang_grp, path)], ns.vals["default"])

\* _extract_term_info(lang_grp): the exception raised ("" when it returns)
\* and the term_info returned
ExtractTermInfo(lang_grp, selected, ns) ==
    LET TermInfo(extracted) == [error |-> extracted.error,
                                language |-> LangCode(lang_grp),
                                terms |-> extracted.terms]
        Extracted(term_groups) ==
            IF term_groups.error # "" THEN [error |-> term_groups.error, terms |-> << >>]
            ELSE ExtractTerms(term_groups.groups, {}, selected, LangCode(lang_grp), ns)
    IN TermInfo(Extracted(TermGroups(lang_grp, ns)))

-----------------------------------------------------------------------------
(* TBXConverter.parse_tbx *)

\* the entry-level fields of an entry: the loop over entry.iter()
RECURSIVE EntryLevelData(_, _)
EntryLevelData(elems, selected) ==
    LET Stored(init, tag_name, field_name, text) ==
            IF Contains(tag_name, "descrip")
            THEN IF field_name \in Range(selected) /\ text # ""
                 THEN Put(init, field_name, text) ELSE init
            ELSE IF Contains(tag_name, "subject")
                 THEN IF "entry_subject" \in Range(selected) /\ text # ""
                      THEN Put(init, "entry_subject", text) ELSE init
            ELSE init
    IN IF Len(elems) = 0 THEN EmptyDict
       ELSE Stored(EntryLevelData(SubSeq(elems, 1, Len(elems) - 1), selected),
                   Lower(elems[Len(elems)].tag),
                   "entry_descrip_" \o AttrGet(elems[Len(elems)], "type", "description"),
                   Strip(elems[Len(elems)].text))

\* the language groups of an entry, in the order the loop visits them: the
\* exception raised ("" when there is none) and the list lang_groups
LangGroups(entry, ns) ==
    LET Chosen(sets, grps, qsets, qgrps, any) ==
            IF Len(sets) > 0 THEN [error |-> "", groups |-> sets]
            ELSE IF Len(grps) > 0 THEN [error |-> "", groups |-> grps]
            ELSE IF ~HasKey(ns, "default") THEN [error |-> "", groups |-> any]
            ELSE IF qsets.error # "" THEN [error |-> qsets.error, groups |-> << >>]
            ELSE IF qgrps.error # "" THEN [error |-> qgrps.error, groups |-> << >>]
            ELSE IF Len(qsets.paths) + Len(qgrps.paths) > 0
            THEN [error |-> "", groups |-> Elems(entry, qsets.paths \o qgrps.paths)]
            ELSE [error |-> "", groups |-> any]
        Searched(findall, default) ==
            Chosen(Elems(entry, findall[".//langSet"].paths \o findall["langSet"].paths),
                   Elems(entry, findall[".//langGrp"].paths \o findall["langGrp"].paths),
                   findall[".//" \o default \o "langSet"],
                   findall[".//" \o default \o "langGrp"],
                   SelectSeq(Iter(entry),
                             LAMBDA n : /\ Contains(Lower(n.tag), "lang")
                                        /\ \/ Contains(Lower(n.tag), "grp")
                                           \/ Contains(Lower(n.tag), "set")))
    IN Searched([path \in STRING |-> FindAll(entry, path)], ns.vals["default"])

\* entry_data['languages'] after the loop over lang_groups: the exception
\* raised ("" when there is none) and the dict (as far as it was filled)
RECURSIVE Languages(_, _, _)
Languages(lang_groups, selected, ns) ==
    LET Stored(init, lang_info) ==
            IF init.error # "" THEN init
            ELSE IF lang_info.error # ""
            THEN [error |-> lang_info.error, languages |-> init.languages]
            ELSE [error |-> "",
                  languages |-> IF lang_info.language # "" /\ Len(lang_info.terms) > 0
                                THEN Put(init.languages, lang_info.language, lang_info.terms)
                                ELSE init.languages]
    IN IF Len(lang_groups) = 0 THEN [error |-> "", languages |-> EmptyDict]
       ELSE Stored(Languages(SubSeq(lang_groups, 1, Len(lang_groups) - 1), selected, ns),
                   ExtractTermInfo(lang_groups[Len(lang_groups)], selected, ns))

\* a faulty variant of EntryId: the entries counted from 0
EntryIdFromZero(entry, i) == AttrGet(entry, "id", "entry_" \o ToStr(i - 1))

\* the entry id of the i-th entry (i counted from 1)
EntryId(entry, i) == AttrGet(entry, "id", "entry_" \o ToStr(i))

\* entry_data of the i-th entry, and the exception raised while it was
\* filled ("" when there is none)
EntryData(entry, i, selected, ns) ==
    LET Data(filled) == [error |-> filled.error,
                         entry_id |-> EntryId(entry, i),
                         fields |-> EntryLevelData(Iter(entry), selected),
                         languages |-> filled.languages]
        Filled(lang_groups) ==
            IF lang_groups.error # ""
            THEN [error |-> lang_groups.error, languages |-> EmptyDict]
            ELSE Languages(lang_groups.groups, selected, ns)
    IN Data(Filled(LangGroups(entry, ns)))

\* self.entries_data after the loop over term_entries: the exception that
\* ended the loop ("" when there is none) and the dict, which holds the
\* entries stored before
RECURSIVE EntriesData(_, _, _)
EntriesData(term_entries, selected, ns) ==
    LET Stored(init, entry_data) ==
            IF init.error # "" THEN init
            ELSE IF entry_data.error # ""
            THEN [error |-> entry_data.error, entries |-> init.entries]
            ELSE [error |-> "",
                  entries |-> Put(init.entries, entry_data.entry_id,
                                  [entry_id |-> entry_data.entry_id,
                                   fields |-> entry_data.fields,
                                   languages |-> entry_data.languages])]
    IN IF Len(term_entries) = 0 THEN [error |-> "", entries |-> EmptyDict]
       ELSE Stored(EntriesData(SubSeq(term_entries, 1, Len(term_entries) - 1), selected, ns),
                   EntryData(term_entries[Len(term_entries)], Len(term_entries),
                             selected, ns))

-----------------------------------------------------------------------------
(* TBXConverter._flatten_entries_to_rows *)

\* is a selected field an entry-level one the term loop skips
IsEntryLevel(field) == StartsWith(field, "entry_") \/ field = "entry_id"

\* the column of a field of the term at position term_idx (from 0) of a language
ColName(lang_code, field, term_idx) ==
    IF term_idx = 0
    THEN lang_code \o "_" \o field
    ELSE lang_code \o "_" \o field \o "_" \o ToStr(term_idx + 1)

\* the row after the entry id and the entry-level description fields
RECURSIVE EntryLevelRow(_, _, _)
EntryLevelRow(row, entry_data, fields) ==
    IF Len(fields) = 0 THEN row
    ELSE LET field == Head(fields)
             next == IF StartsWith(field, "entry_") /\ field # "entry_id"
                     THEN Put(row, field, Get(entry_data.fields, field, ""))
                     ELSE row
         IN EntryLevelRow(next, entry_data, Tail(fields))

\* a faulty variant of TermColumns: the loop ends at the first entry-level
\* field (break for continue)
RECURSIVE TermColumnsBreak(_, _, _, _, _)
TermColumnsBreak(row, lang_code, term_idx, term_data, fields) ==
    IF Len(fields) = 0 \/ IsEntryLevel(Head(fields)) THEN row
    ELSE TermColumnsBreak(Put(row, ColName(lang_code, Head(fields), term_idx),
                              Get(term_data, Head(fields), "")),
                          lang_code, term_idx, term_data, Tail(fields))

\* the loop over selected_fields for one term
RECURSIVE TermColumns(_, _, _, _, _)
TermColumns(row, lang_code, term_idx, term_data, fields) ==
    IF Len(fields) = 0 THEN row
    ELSE LET field == Head(fields)
             next == IF IsEntryLevel(field) THEN row
                     ELSE Put(row, ColName(lang_code, field, term_idx),
                              Get(term_data, field, ""))
         IN TermColumns(next, lang_code, term_idx, term_data, Tail(fields))

\* the loop over the terms of one language, from position term_idx on
RECURSIVE LangColumns(_, _, _, _, _)
LangColumns(row, lang_code, terms, term_idx, selected) ==
    IF term_idx >= Len(terms) THEN row
    ELSE LangColumns(TermColumns(row, lang_code, term_idx, terms[term_idx + 1], selected),
                     lang_code, terms, term_idx + 1, selected)

\* the loop over the languages of one entry
RECURSIVE LanguageColumns(_, _, _, _)
LanguageColumns(row, languages, lang_codes, selected) ==
    IF Len(lang_codes) = 0 THEN row
    ELSE LanguageColumns(
             LangColumns(row, Head(lang_codes), languages.vals[Head(lang_codes)], 0, selected),
             languages, Tail(lang_codes), selected)

\* the row of one entry
FlattenEntry(entry_id, entry_data, selected) ==
    LET id_row == IF "entry_id" \in Range(selected)
                  THEN Put(EmptyDict, "entry_id", entry_id) ELSE EmptyDict
        row == EntryLevelRow(id_row, entry_data, selected)
    IN LanguageColumns(row, entry_data.languages, entry_data.languages.keys, selected)

\* self.terms_data after _flatten_entries_to_rows()
FlattenEntriesToRows(entries, selected) ==
    [i \in 1..Len(entries.keys) |->
        FlattenEntry(entries.keys[i], entries.vals[entries.keys[i]], selected)]

\* the loop of parse_tbx() over the entries it found: the exception raised
\* ("" when there is none) and self.entries_data
ParsedEntries(d, selected, ns) == EntriesData(TermEntries(d.root).entries, selected, ns)

\* self.terms_data when parse_tbx() ends: the rows, or no row when it ends
\* in sys.exit(1) before it made them
ParseRows(d, selected) ==
    LET Rows(data) == IF ScanRaises(d) \/ data.error # "" THEN << >>
                      ELSE FlattenEntriesToRows(data.entries, selected)
    IN Rows(ParsedEntries(d, selected, RegisterNamespaces(EmptyDict, d.root)))

-----------------------------------------------------------------------------
(* TBXConverter.to_excel *)

\* a DataFrame cell holding a str, and the missing-value cell
Cell(v) == [na |-> FALSE, v |-> v]
NaN == [na |-> TRUE, v |-> ""]

\* the columns of pd.DataFrame(rows): the keys of the rows, in first-seen order
RECURSIVE UnionColumns(_)
UnionColumns(rows) ==
    IF Len(rows) = 0 THEN << >>
    ELSE LET init == UnionColumns(SubSeq(rows, 1, Len(rows) - 1))
             new == SelectSeq(rows[Len(rows)].keys, LAMBDA k : k \notin Range(init))
         IN init \o new

\* pd.DataFrame(rows)
DataFrame(rows) ==
    LET Frame(columns) ==
            [columns |-> columns,
             cells |-> [r \in 1..Len(rows) |->
                          [c \in 1..Len(columns) |->
                             IF HasKey(rows[r], columns[c])
                             THEN Cell(rows[r].vals[columns[c]]) ELSE NaN]]]
    IN Frame(UnionColumns(rows))

\* a faulty variant of RenameColumn: the term number is not put back
RenameColumnDropsNumber(current_col, mappings) ==
    LET parts == Split(current_col)
        numbered == Len(parts) >= 3 /\ IsDigit(parts[Len(parts)])
        base_field == IF numbered
                      THEN Join(SubSeq(parts, 2, Len(parts) - 1))
                      ELSE Join(SubSeq(parts, 2, Len(parts)))
    IN IF Contains(current_col, "_") /\ HasKey(mappings, base_field)
       THEN parts[1] \o "_" \o mappings.vals[base_field]
       ELSE IF HasKey(mappings, current_col) THEN mappings.vals[current_col]
       ELSE current_col

\* a faulty variant of RenameColumn: only a mapping of the whole column name
\* is applied
RenameColumnWholeName(current_col, mappings) ==
    IF HasKey(mappings, current_col) THEN mappings.vals[current_col] ELSE current_col

\* a faulty variant of RenameColumn: no mapping of the whole column name is
\* applied
RenameColumnPrefixedOnly(current_col, mappings) ==
    LET parts == Split(current_col)
        numbered == Len(parts) >= 3 /\ IsDigit(parts[Len(parts)])
        base_field == IF numbered
                      THEN Join(SubSeq(parts, 2, Len(parts) - 1))
                      ELSE Join(SubSeq(parts, 2, Len(parts)))
    IN IF Contains(current_col, "_") /\ HasKey(mappings, base_field)
       THEN parts[1] \o "_" \o mappings.vals[base_field]
            \o (IF numbered THEN "_" \o parts[Len(parts)] ELSE "")
       ELSE current_col

\* the new name of a column: rename_dict[current_col]
RenameColumn(current_col, mappings) ==
    LET \* << >> is None
        Prefixed(lang_prefix, term_number, base_field) ==
            IF Contains(current_col, "_")
            THEN IF HasKey(mappings, base_field)
                 THEN <<lang_prefix \o "_" \o mappings.vals[base_field] \o term_number>>
                 ELSE IF HasKey(mappings, current_col)
                      THEN <<mappings.vals[current_col]>>
                      ELSE << >>
            ELSE << >>
        Parsed(parts, numbered) ==
            Prefixed(parts[1],
                     IF numbered THEN "_" \o parts[Len(parts)] ELSE "",
                     IF numbered
                     THEN Join(SubSeq(parts, 2, Len(parts) - 1))
                     ELSE Join(SubSeq(parts, 2, Len(parts))))
        SplitParts(parts) == Parsed(parts, Len(parts) >= 3 /\ IsDigit(parts[Len(parts)]))
        Whole(prefixed) == IF Len(prefixed) = 0 /\ HasKey(mappings, current_col)
                           THEN <<mappings.vals[current_col]>>
                           ELSE prefixed
        Renamed(new_name) == IF Len(new_name) > 0 /\ new_name[1] # "" THEN new_name[1]
                             ELSE current_col
    IN Renamed(Whole(SplitParts(Split(current_col))))

\* the DataFrame to_excel writes
ToExcelFrame(rows, mappings) ==
    LET Renamed(frame) ==
            IF Len(mappings.keys) > 0
            THEN [columns |-> [c \in 1..Len(frame.columns) |->
                                 RenameColumn(frame.columns[c], mappings)],
                  cells |-> frame.cells]
            ELSE frame
    IN Renamed(DataFrame(rows))

-----------------------------------------------------------------------------
(* The interactive configuration and main *)

\* {field: field for field in selected}
RECURSIVE IdentityMapping(_)
IdentityMapping(selected) ==
    IF Len(selected) = 0 THEN EmptyDict
    ELSE LET field == selected[Len(selected)]
         IN Put(IdentityMapping(SubSeq(selected, 1, Len(selected) - 1)), field, field)

\* the numbers typed at the selection prompt: << >> when the input does not
\* parse (int() raises ValueError and the prompt is repeated)
SelectedNumbers(user_input) ==
    LET Stripped(items) == [i \in 1..Len(items) |-> Strip(items[i])]
        Numbers(texts) == IF \A i \in 1..Len(texts) : IsIntLiteral(texts[i])
                          THEN [i \in 1..Len(texts) |-> IntOf(texts[i])]
                          ELSE << >>
    IN Numbers(Stripped(SplitOn(user_input, ",")))

\* does the selection prompt accept the input (else it asks again)
AcceptsSelection(user_input, sorted_fields) ==
    LET InRange(numbers) ==
            /\ Len(numbers) > 0
            /\ \A i \in 1..Len(numbers) : numbers[i] >= 1 /\ numbers[i] <= Len(sorted_fields)
    IN Lower(user_input) = "all" \/ InRange(SelectedNumbers(user_input))

\* a faulty variant of SelectFields: all leaves out the last field listed
SelectFieldsAllButLast(user_input, sorted_fields) ==
    LET Fields(numbers) == [i \in 1..Len(numbers) |-> sorted_fields[numbers[i]]]
    IN IF Lower(user_input) = "all" THEN SubSeq(sorted_fields, 1, Len(sorted_fields) - 1)
       ELSE Fields(SelectedNumbers(user_input))

\* self.selected_fields after an accepted input
SelectFields(user_input, sorted_fields) ==
    LET Fields(numbers) == [i \in 1..Len(numbers) |-> sorted_fields[numbers[i]]]
    IN IF Lower(user_input) = "all" THEN sorted_fields
       ELSE Fields(SelectedNumbers(user_input))

\* the loop of the selection prompt over the inputs typed: the position of
\* the first input it accepts, 0 when it accepts none of them
FirstAccepted(script, sorted_fields) ==
    LET First(accepted) ==
            IF accepted = {} THEN 0 ELSE CHOOSE i \in accepted : \A j \in accepted : i <= j
    IN First({i \in 1..Len(script) : AcceptsSelection(Strip(script[i]), sorted_fields)})

\* self.selected_fields after _interactive_field_selection, script being the
\* inputs typed, the last of them the first accepted one
SelectByScript(script, sorted_fields) ==
    SelectFields(Strip(script[FirstAccepted(script, sorted_fields)]), sorted_fields)

\* self.field_mappings after the individual renaming loop: names[i] is what
\* the user typed for the i-th selected field (the loop ends where the
\* input ends)
RECURSIVE RenameIndividually(_, _, _)
RenameIndividually(mappings, selected, names) ==
    IF Len(selected) = 0 \/ Len(names) = 0 THEN mappings
    ELSE LET field == Head(selected)
             new_name == Strip(Head(names))
         IN RenameIndividually(
                Put(mappings, field, IF new_name # "" THEN new_name ELSE field),
                Tail(selected), Tail(names))

\* a loop that asks until the answer is one of choices: the position in
\* script, from the position start on, of the first such answer; 0 when there
\* is none
FirstAnswer(script, start, choices) ==
    LET First(found) == IF found = {} THEN 0 ELSE CHOOSE i \in found : \A j \in found : i <= j
    IN First({i \in start..Len(script) : Lower(Strip(script[i])) \in choices})

\* self.field_mappings after _interactive_field_renaming: script is what the
\* user typed (answers until keep or rename; after rename, answers until
\* y, n, yes or no; after y or yes, one name per selected field).  Where the
\* input ends before a prompt is answered, the mappings are as they were at
\* that prompt.
RenameFields(mappings, selected, script) ==
    LET Answered(c, i) ==
            IF Len(selected) = 0 \/ c = 0 THEN mappings
            ELSE IF Lower(Strip(script[c])) = "keep" THEN IdentityMapping(selected)
            ELSE IF i = 0 THEN mappings
            ELSE IF Lower(Strip(script[i])) \in {"n", "no"} THEN IdentityMapping(selected)
            ELSE RenameIndividually(mappings, selected, SubSeq(script, i + 1, Len(script)))
        Chosen(c) == Answered(c, FirstAnswer(script, c + 1, {"y", "n", "yes", "no"}))
    IN Chosen(FirstAnswer(script, 1, {"keep", "rename"}))

-----------------------------------------------------------------------------
(* The documents and user inputs explored *)

\* an element without text after its end tag
Elem(tag, attrib, text, children) ==
    [tag |-> tag, attrib |-> attrib, text |-> text, tail |-> "", children |-> children]

\* the attributes {k: v}
Attr(k, v) == Put(EmptyDict, k, v)

Term(text) == Elem("term", NoAttr, text, << >>)
TermNote(type, text) == Elem("termNote", Attr("type", type), text, << >>)
Descrip(type, text) == Elem("descrip", Attr("type", type), text, << >>)
Tig(children) == Elem("tig", NoAttr, "\n", children)
TermGrp(children) == Elem("termGrp", NoAttr, "\n", children)
LangSet(lang, term_groups) == Elem("langSet", Attr(XmlLangKey, lang), "\n", term_groups)
TermEntry(attrib, children) == Elem("termEntry", attrib, "\n", children)
\* a file ET.parse reads, with this root
FileOf(root) == [exists |-> TRUE, wellformed |-> TRUE, root |-> root]
Document(term_entries) == FileOf(Elem("martif", NoAttr, "\n", term_entries))
\* a file ET.parse rejects
Malformed == [exists |-> TRUE, wellformed |-> FALSE, root |-> Elem("", NoAttr, "", << >>)]
\* a path where there is no file
Missing == [exists |-> FALSE, wellformed |-> FALSE, root |-> Elem("", NoAttr, "", << >>)]

\* entry E1: English cat (twice, with notes of the types x_2 and x), and dog
EntryCats ==
    TermEntry(Attr("id", "E1"),
        <<LangSet("en", <<Tig(<<Term(" cat "), TermNote("x_2", "n0")>>),
                          Tig(<<Term("cat"), TermNote("x", "n1")>>),
                          Tig(<<Term("dog"), TermNote("x", "n2")>>)>>)>>)
\* an entry without id: an entry-level description, German and en_US terms
EntryHund ==
    TermEntry(NoAttr,
        <<Descrip("t", "ed"),
          LangSet("de", <<TermGrp(<<Term("Hund"), Descrip("t", " td")>>)>>),
          LangSet("en_US", <<Tig(<<Term("dog")>>)>>)>>)
\* an entry with an id of the synthesized form and no language group
EntryBare == TermEntry(Attr("id", "entry_2"), << >>)
\* a second entry E1, whose only term is blank
EntryBlank == TermEntry(Attr("id", "E1"), <<LangSet("en", <<Tig(<<Term("  ")>>)>>)>>)

EntryPool == {EntryCats, EntryHund, EntryBare, EntryBlank}

\* the longest document explored, in entries
MaxEntries == 2

\* all lists of length at most n over S
SeqsUpTo(S, n) == UNION {[1..k -> S] : k \in 0..n}

\* <martif xmlnsq='a}[b'> around these entries: the default namespace
\* registered is '{a}[b}', and a search for a tag in it raises
DocumentIn(term_entries) ==
    FileOf(Elem("martif", Attr("xmlnsq", "a}[b"), "\n", term_entries))

Documents ==
    {Document(es) : es \in SeqsUpTo(EntryPool, MaxEntries)}
    \cup {DocumentIn(<< >>), DocumentIn(<<EntryCats>>), Malformed, Missing}

\* the inputs typed at the selection prompt when n fields are listed: all,
\* one number, or two numbers, the second not less than the first; or no
\* number, the number 10 and then the number 1 with its sign
SelectionScripts(n) ==
    LET inputs == {"all"} \cup {ToStr(a) : a \in 1..n}
                  \cup UNION {{ToStr(a) \o "," \o ToStr(b) : b \in a..n} : a \in 1..n}
    IN {<<user_input>> : user_input \in inputs} \cup {<<"x", "1_0", "+1">>}

\* what the user may type at the renaming prompts for k selected fields: for
\* a field, nothing or Headword, and Headword for no field, for one field or
\* for all of them
RenameScripts(k) ==
    {<<"keep">>, <<"maybe", "rename", "perhaps", "n">>}
    \cup {<<"rename", "y">> \o [i \in 1..k |-> IF i \in renamed THEN "Headword" ELSE ""] :
             renamed \in {{}, 1..k} \cup {{j} : j \in 1..k}}

-----------------------------------------------------------------------------
(* The converter run by main *)

NoFrame == [columns |-> << >>, cells |-> << >>]
NoElem == Elem("", NoAttr, "", << >>)
NoLangInfo == [language |-> "", terms |-> << >>]

\* what can happen when to_excel writes the frame: the file is written; it
\* is not (both writers raise, or no file exists afterwards) and to_excel
\* returns ''; the directory of the output cannot be made and mkdir raises
WriteOutcomes == {"written", "failed", "raised"}

\* TBXConverter.__init__, on some document
Init ==
    /\ doc \in Documents
    /\ pc = "start"
    /\ mode = ""
    /\ answers = << >>
    /\ namespace = EmptyDict
    /\ available_fields = {}
    /\ selected_fields = << >>
    /\ field_mappings = EmptyDict
    /\ entries_data = EmptyDict
    /\ terms_data = << >>
    /\ df = NoFrame
    /\ call_lang_grp = NoElem
    /\ call_lang_info = NoLangInfo

\* main on a path where there is no file: sys.exit(1) before the converter
\* is made
MainMissingFile ==
    /\ pc = "start"
    /\ ~doc.exists
    /\ pc' = "exit"
    /\ UNCHANGED <<doc, mode, answers, namespace, available_fields, selected_fields,
                   field_mappings, entries_data, terms_data, df, call_lang_grp,
                   call_lang_info>>

\* main with --auto: scan, select every field, keep the names
MainAuto ==
    /\ pc = "start"
    /\ doc.exists
    /\ mode' = "auto"
    /\ namespace' = ParsedNamespace(namespace, doc)
    /\ available_fields' = available_fields \cup ScanAvailableFields(doc)
    /\ selected_fields' = Sorted(available_fields')
    /\ field_mappings' = IdentityMapping(selected_fields')
    /\ pc' = "configured"
    /\ UNCHANGED <<doc, answers, entries_data, terms_data, df, call_lang_grp, call_lang_info>>

\* _interactive_field_selection: the prompt is repeated until it accepts an
\* input
InteractiveFieldSelection ==
    /\ pc = "start"
    /\ doc.exists
    /\ mode' = "interactive"
    /\ namespace' = IF available_fields = {}
                    THEN ParsedNamespace(namespace, doc) ELSE namespace
    /\ available_fields' = IF available_fields = {}
                           THEN ScanAvailableFields(doc) ELSE available_fields
    /\ \E sorted_fields \in {Sorted(available_fields')} :
          \E script \in SelectionScripts(Len(sorted_fields)) :
             /\ FirstAccepted(script, sorted_fields) = Len(script)
             /\ selected_fields' = SelectByScript(script, sorted_fields)
             /\ answers' = answers \o script
    /\ pc' = "selected"
    /\ UNCHANGED <<doc, field_mappings, entries_data, terms_data, df, call_lang_grp, call_lang_info>>

\* _interactive_field_renaming
InteractiveFieldRenaming ==
    /\ pc = "selected"
    /\ IF Len(selected_fields) = 0
       THEN UNCHANGED <<field_mappings, answers>>
       ELSE \E script \in RenameScripts(Len(selected_fields)) :
               /\ field_mappings' = RenameFields(field_mappings, selected_fields, script)
               /\ answers' = answers \o script
    /\ pc' = "configured"
    /\ UNCHANGED <<doc, mode, namespace, available_fields, selected_fields, entries_data,
                   terms_data, df, call_lang_grp, call_lang_info>>

\* parse_tbx, and main's check that it extracted something: sys.exit(1) when
\* ET.parse, the registration of the namespaces or a search raises (the
\* entries stored before stay in entries_data), or when no row was made
ParseTbx ==
    /\ pc = "configured"
    /\ namespace' = ParsedNamespace(namespace, doc)
    /\ IF ScanRaises(doc)
       THEN /\ pc' = "exit"
            /\ UNCHANGED <<entries_data, terms_data>>
       ELSE \E data \in {ParsedEntries(doc, selected_fields, namespace')} :
               /\ entries_data' = data.entries
               /\ terms_data' = IF data.error # "" THEN terms_data
                                ELSE FlattenEntriesToRows(data.entries, selected_fields)
               /\ pc' = IF data.error # "" \/ Len(terms_data') = 0 THEN "exit" ELSE "parsed"
    /\ UNCHANGED <<doc, mode, answers, available_fields, selected_fields, field_mappings,
                   df, call_lang_grp, call_lang_info>>

\* to_excel, and main's check that it wrote the file: sys.exit(1) when
\* to_excel returns ''
ToExcel ==
    /\ pc = "parsed"
    /\ df' = ToExcelFrame(terms_data, field_mappings)
    /\ \E outcome \in WriteOutcomes :
          pc' = CASE outcome = "written" -> "done"
                  [] outcome = "failed" -> "exit"
                  [] outcome = "raised" -> "raised"
    /\ UNCHANGED <<doc, mode, answers, namespace, available_fields, selected_fields,
                   field_mappings, entries_data, terms_data, call_lang_grp, call_lang_info>>

Next ==
    \/ MainMissingFile
    \/ MainAuto
    \/ InteractiveFieldSelection
    \/ InteractiveFieldRenaming
    \/ ParseTbx
    \/ ToExcel

Spec == Init /\ [][Next]_vars

-----------------------------------------------------------------------------
(* A direct call of _extract_term_info *)

\* the most term groups of a language group
MaxTermGroups == 3

\* the no-break space, a character str.strip() removes
NoBreakSpace == Chr(160)

\* the language groups _extract_term_info is called on: those made of term
\* groups with a term (cat between no-break spaces, cat, a space and a
\* no-break space, dog in a termGrp, cat beside a language element), and
\* those of one term group without term, or with a tag in the TBX namespace
LangGroupInputs ==
    LET pool == {Tig(<<Term(NoBreakSpace \o "cat" \o NoBreakSpace)>>),
                 Tig(<<Term("cat"), TermNote("x", "n1")>>),
                 Tig(<<Term(" " \o NoBreakSpace)>>),
                 TermGrp(<<Term("dog"), TermNote("x", "n3")>>),
                 Tig(<<Term("cat"), Elem("language", NoAttr, "xx", << >>)>>)}
        single == {Tig(<<TermNote("x", "zz")>>),
                   Tig(<<Descrip("t", "d")>>),
                   Elem("{" \o TbxUri \o "}tig", NoAttr, "\n", <<Term("emu")>>)}
    IN {LangSet("en", tgs) : tgs \in SeqsUpTo(pool, MaxTermGroups)}
       \cup {LangSet("en", <<tg>>) : tg \in single}

\* a converter that has parsed nothing, or has registered the namespaces of
\* a root without attributes, or of the root <martif xmlnsq='a}[b'>
InitExtract ==
    /\ call_lang_grp \in LangGroupInputs
    /\ selected_fields \in {<<"term">>, <<"termNote_x">>,
                             <<"entry_id", "language", "term", "termNote_x">>}
    /\ doc = Document(<<TermEntry(NoAttr, <<call_lang_grp>>)>>)
    /\ pc = "extract"
    /\ mode = ""
    /\ answers = << >>
    /\ namespace \in {EmptyDict, RegisterNamespaces(EmptyDict, doc.root),
                      RegisterNamespaces(EmptyDict, DocumentIn(<< >>).root)}
    /\ available_fields = {}
    /\ field_mappings = IdentityMapping(selected_fields)
    /\ entries_data = EmptyDict
    /\ terms_data = << >>
    /\ df = NoFrame
    /\ call_lang_info = NoLangInfo

\* lang_info = self._extract_term_info(lang_grp)
ExtractCall ==
    /\ pc = "extract"
    /\ \E term_info \in {ExtractTermInfo(call_lang_grp, selected_fields, namespace)} :
          IF term_info.error # ""
          THEN pc' = "raised" /\ UNCHANGED call_lang_info
          ELSE /\ pc' = "extracted"
               /\ call_lang_info' = [language |-> term_info.language,
                                     terms |-> term_info.terms]
    /\ UNCHANGED <<doc, mode, answers, namespace, available_fields, selected_fields,
                   field_mappings, entries_data, terms_data, df, call_lang_grp>>

SpecExtract == InitExtract /\ [][ExtractCall]_vars

-----------------------------------------------------------------------------
(* main with --auto, on documents of more entries *)

\* an entry whose only description is inside a term group
EntryNested ==
    TermEntry(Attr("id", "N1"),
        <<LangSet("en", <<Tig(<<Term("cat"), Descrip("u", "nested")>>)>>)>>)
\* an entry without id, with an entry-level description
EntryTop ==
    TermEntry(NoAttr, <<Descrip("t", "top"), LangSet("de", <<Tig(<<Term("Hund")>>)>>)>>)
\* an entry without id with two English language groups and one without
\* language attribute
EntryTwice ==
    TermEntry(NoAttr,
        <<LangSet("en", <<Tig(<<Term("cat")>>)>>),
          LangSet("en", <<Tig(<<Term("dog")>>)>>),
          Elem("langSet", NoAttr, "\n", <<Tig(<<Term("x")>>)>>)>>)
\* an entry with a note of a type no other entry has
EntryNote ==
    TermEntry(Attr("id", "N4"), <<LangSet("fr", <<Tig(<<Term("chat"), TermNote("y", "n")>>)>>)>>)

AutoEntryPool == {EntryNested, EntryTop, EntryTwice, EntryNote}

\* the longest document explored under --auto, in entries
MaxAutoEntries == 4

\* an element and its descendants, every tag in the namespace uri
RECURSIVE Qualified(_, _)
Qualified(elem, uri) ==
    Elem("{" \o uri \o "}" \o elem.tag, elem.attrib, elem.text,
         [i \in 1..Len(elem.children) |-> Qualified(elem.children[i], uri)])

\* <martif xmlns='(the TBX URI)'> around the entry EntryNote
DocTbxNamespace == FileOf(Qualified(Document(<<EntryNote>>).root, TbxUri))

\* <martif xmlns='urn:q' xmlnsq='urn:q'> around the entry EntryNote
DocOtherNamespace ==
    FileOf([Qualified(Document(<<EntryNote>>).root, "urn:q") EXCEPT
                !.attrib = Attr("xmlnsq", "urn:q")])

AutoDocuments ==
    {Document(es) : es \in SeqsUpTo(AutoEntryPool, MaxAutoEntries)}
    \cup {DocTbxNamespace, DocOtherNamespace, DocumentIn(<< >>),
          DocumentIn(<<EntryNote>>), Missing}

InitAuto ==
    /\ doc \in AutoDocuments
    /\ pc = "start"
    /\ mode = ""
    /\ answers = << >>
    /\ namespace = EmptyDict
    /\ available_fields = {}
    /\ selected_fields = << >>
    /\ field_mappings = EmptyDict
    /\ entries_data = EmptyDict
    /\ terms_data = << >>
    /\ df = NoFrame
    /\ call_lang_grp = NoElem
    /\ call_lang_info = NoLangInfo

NextAuto ==
    \/ MainMissingFile
    \/ MainAuto
    \/ ParseTbx
    \/ ToExcel

SpecAuto == InitAuto /\ [][NextAuto]_vars

-----------------------------------------------------------------------------
(* main, interactively, on documents with a type that ends in a digit *)

\* the superscript two, a character str.isdigit() accepts
SuperscriptTwo == Chr(178)

\* an entry without id: an entry-level description of a type that ends in
\* an underscore and a superscript two; a German term with a description and
\* a note of such a type; an en_US term
EntrySuperscript ==
    TermEntry(NoAttr,
        <<Descrip("t_" \o SuperscriptTwo, "ed"),
          LangSet("de", <<TermGrp(<<Term("Hund"), Descrip("t", " td"),
                                    TermNote("x_" \o SuperscriptTwo, "sup")>>)>>),
          LangSet("en_US", <<Tig(<<Term("dog")>>)>>)>>)

RenameDocuments ==
    {Document(<<EntrySuperscript>>), Document(<<EntryCats, EntrySuperscript>>)}

InitRename ==
    /\ doc \in RenameDocuments
    /\ pc = "start"
    /\ mode = ""
    /\ answers = << >>
    /\ namespace = EmptyDict
    /\ available_fields = {}
    /\ selected_fields = << >>
    /\ field_mappings = EmptyDict
    /\ entries_data = EmptyDict
    /\ terms_data = << >>
    /\ df = NoFrame
    /\ call_lang_grp = NoElem
    /\ call_lang_info = NoLangInfo

NextRename ==
    \/ InteractiveFieldSelection
    \/ InteractiveFieldRenaming
    \/ ParseTbx
    \/ ToExcel

SpecRename == InitRename /\ [][NextRename]_vars

-----------------------------------------------------------------------------
(* Properties *)

\* parse_tbx has returned rows
Parsed == pc \in {"parsed", "done"}

\* the entries of the document, in document order
DocEntries == TermEntries(doc.root).entries

\* the entry_data of the i-th entry of the document
DocEntryData(i) ==
    EntryData(DocEntries[i], i, selected_fields, namespace)

\* the row of the i-th entry of the document
DocEntryRow(i) == FlattenEntry(EntryId(DocEntries[i], i), DocEntryData(i), selected_fields)

\* the selected fields that give language-prefixed columns
TermFields == {f \in Range(selected_fields) : ~IsEntryLevel(f)}

\* the (language, field, term index) triples the flattener visits for an entry
Triples(entry_data) ==
    UNION {{<<lang, f, i>> : f \in TermFields,
                             i \in 0..(Len(entry_data.languages.vals[lang]) - 1)} :
           lang \in Range(entry_data.languages.keys)}

\* C1: a document with N entries gives exactly N rows, the i-th row being
\* the row of the i-th entry in document order.
C1_OneRowPerEntry ==
    Parsed =>
        /\ Len(terms_data) = Len(DocEntries)
        /\ \A i \in 1..Len(DocEntries) : terms_data[i] = DocEntryRow(i)

\* C2: within the row of one entry, two different (language, field, term
\* index) triples never have the same column name.
C2_ColumnNamesUnique ==
    Parsed =>
        \A id \in Range(entries_data.keys) :
            \A s, t \in Triples(entries_data.vals[id]) :
                s # t => ColName(s[1], s[2], s[3]) # ColName(t[1], t[2], t[3])

\* C3: for an entry, a language of it with k term records and a selected
\* field that is not entry-level, the row holds the columns of the term
\* indexes 1..k, the i-th with the i-th record's value of the field, and holds
\* no column of the index k+1.
C3_IndexedColumns ==
    Parsed =>
        \A r \in 1..Len(entries_data.keys) :
            LET languages == entries_data.vals[entries_data.keys[r]].languages
                row == terms_data[r]
            IN \A lang \in Range(languages.keys) : \A f \in TermFields :
                   LET terms == languages.vals[lang]
                   IN /\ \A i \in 0..(Len(terms) - 1) :
                            /\ HasKey(row, ColName(lang, f, i))
                            /\ row.vals[ColName(lang, f, i)] = Get(terms[i + 1], f, "")
                      /\ ~HasKey(row, ColName(lang, f, Len(terms)))

\* the term groups of the language group of the direct call, in the order the
\* loop visits them
CallTermGroups == TermGroups(call_lang_grp, namespace).groups

\* the trimmed term texts of a list of term groups
TermTexts(term_groups, ns) ==
    [i \in 1..Len(term_groups) |->
        LET found == TermElem(term_groups[i], ns).found
        IN IF Len(found) = 0 THEN "" ELSE TermText(found[1])]

\* the positions, in order, of the texts that are not empty and occur at no
\* earlier position
FirstOccurrences(texts) ==
    SelectSeq([i \in 1..Len(texts) |-> i],
              LAMBDA i : texts[i] # "" /\ \A j \in 1..(i - 1) : texts[j] # texts[i])

\* is the text trimmed: no blank (a character str.strip() removes) at its
\* start or its end
IsTrimmed(text) ==
    text = "" \/ (Ch(text, 1) \notin Whitespace /\ Ch(text, Len(text)) \notin Whitespace)

\* C4: _extract_term_info returns exactly one record per distinct non-empty
\* trimmed term text, in order of first occurrence, and the record is that of
\* the first term group with the text; the term texts of the records are
\* trimmed, not empty and pairwise different.
C4_OneRecordPerDistinctText ==
    pc = "extracted" =>
        LET terms == call_lang_info.terms
            groups == CallTermGroups
            texts == TermTexts(groups, namespace)
            first == FirstOccurrences(texts)
        IN /\ Len(terms) = Len(first)
           /\ \A i \in 1..Len(texts) : IsTrimmed(texts[i])
           /\ \A n \in 1..Len(first) :
                 /\ terms[n] = TermData(groups[first[n]], texts[first[n]],
                                        selected_fields, LangCode(call_lang_grp))
                 /\ "term" \in Range(selected_fields)
                       => /\ terms[n].vals["term"] = texts[first[n]]
                          /\ terms[n].vals["term"] # ""
                          /\ \A m \in 1..(n - 1) :
                                 terms[m].vals["term"] # terms[n].vals["term"]

\* a call on the term texts cat between no-break spaces, a space and a
\* no-break space, and cat: the first is kept as cat, the second is empty
\* when trimmed and the third repeats the first
C4_Witness ==
    /\ pc = "extracted"
    /\ call_lang_grp = LangSet("en", <<Tig(<<Term(NoBreakSpace \o "cat" \o NoBreakSpace)>>),
                                        Tig(<<Term(" " \o NoBreakSpace)>>),
                                        Tig(<<Term("cat"), TermNote("x", "n1")>>)>>)
    /\ TermTexts(CallTermGroups, namespace) = <<"cat", "", "cat">>
    /\ Len(call_lang_info.terms) = 1
    /\ "term" \in Range(selected_fields) => call_lang_info.terms[1].vals["term"] = "cat"
    /\ "termNote_x" \in Range(selected_fields)
          => call_lang_info.terms[1].vals["termNote_x"] = ""

\* the columns of the frame before the renaming
OriginalColumns == UnionColumns(terms_data)

\* the name to_excel gave the column col, one of the columns original of the
\* rows
RenamedColumn(original, col) ==
    df.columns[CHOOSE c \in 1..Len(original) : original[c] = col]

\* does a field key end in an underscore and digits (characters
\* str.isdigit() accepts)
EndsInNumber(f) == LET parts == Split(f) IN Len(parts) >= 2 /\ IsDigit(parts[Len(parts)])

\* C5 as stated: the column of every (language L, field F, term index i)
\* whose field has a mapping M(F) is renamed to L_M(F) for i = 0 and to
\* L_M(F)_{i+1} otherwise.
C5_RenameKeepsPrefixAndIndex ==
    pc = "done" =>
        LET original == OriginalColumns
        IN \A id \in Range(entries_data.keys) : \A t \in Triples(entries_data.vals[id]) :
               HasKey(field_mappings, t[2])
                   => RenamedColumn(original, ColName(t[1], t[2], t[3]))
                          = ColName(t[1], field_mappings.vals[t[2]], t[3])

\* C5 amended: the same, for a language code without underscore and, at term
\* index 0, a field key that does not end in an underscore and digits.
C5_RenameKeepsPrefixAndIndexPlain ==
    pc = "done" =>
        LET original == OriginalColumns
        IN \A id \in Range(entries_data.keys) : \A t \in Triples(entries_data.vals[id]) :
               (/\ HasKey(field_mappings, t[2])
                /\ ~Contains(t[1], "_")
                /\ (t[3] = 0 => ~EndsInNumber(t[2])))
                   => RenamedColumn(original, ColName(t[1], t[2], t[3]))
                          = ColName(t[1], field_mappings.vals[t[2]], t[3])

\* the scenario of the specification: term renamed to Headword, the columns
\* en_term and en_term_2 become en_Headword and en_Headword_2
C5_Witness ==
    /\ pc = "done"
    /\ HasKey(field_mappings, "term") /\ field_mappings.vals["term"] = "Headword"
    /\ {"en_term", "en_term_2"} \subseteq Range(OriginalColumns)
    /\ RenamedColumn(OriginalColumns, "en_term") = "en_Headword"
    /\ RenamedColumn(OriginalColumns, "en_term_2") = "en_Headword_2"

\* C6: under the identity mapping the renaming changes no column name and no
\* value: the frame is the one to_excel builds with an empty field_mappings.
C6_IdentityRenameNoOp ==
    (pc = "done" /\ field_mappings = IdentityMapping(selected_fields)) =>
        /\ df = ToExcelFrame(terms_data, EmptyDict)
        /\ df.columns = OriginalColumns

\* an identity-mapped run whose frame has language-prefixed columns with and
\* without a term number, and an entry-level column
C6_Witness ==
    /\ pc = "done"
    /\ field_mappings = IdentityMapping(selected_fields)
    /\ {"entry_id", "en_term", "en_term_2", "en_termNote_x_2"} \subseteq Range(df.columns)

\* to_excel has built its frame
FrameBuilt == pc \in {"done", "raised"} \/ (pc = "exit" /\ terms_data # << >>)

\* C7: the interactive answers all, keep give the selected fields and the
\* mappings of the auto mode, hence the same rows and the same frame.
C7_AutoEqualsAllKeep ==
    (/\ mode = "interactive"
     /\ pc \in {"configured", "parsed", "done", "exit", "raised"}
     /\ Lower(Strip(answers[1])) = "all"
     /\ answers[2] = "keep") =>
        LET auto_selected == Sorted(ScanAvailableFields(doc))
            auto_mappings == IdentityMapping(auto_selected)
        IN /\ selected_fields = auto_selected
           /\ field_mappings = auto_mappings
           /\ (Parsed \/ FrameBuilt) => terms_data = ParseRows(doc, auto_selected)
           /\ FrameBuilt => df = ToExcelFrame(ParseRows(doc, auto_selected), auto_mappings)
           /\ (pc = "exit" /\ ~FrameBuilt)
                 => (ScanRaises(doc) \/ Len(ParseRows(doc, auto_selected)) = 0)

\* an interactive run with the answers all, keep that wrote two rows
C7_Witness ==
    /\ pc = "done"
    /\ mode = "interactive"
    /\ answers = <<"all", "keep">>
    /\ Len(terms_data) = 2
    /\ Len(df.columns) > 3

\* has the i-th entry of the document no term record in any language group
Termless(i) ==
    \A lg \in Range(LangGroups(DocEntries[i], namespace).groups) :
        Len(ExtractTermInfo(lg, selected_fields, namespace).terms) = 0

\* is row the entry-level row of the i-th entry: its columns are entry_id (if
\* selected) and the selected entry_* fields, blank when the entry has none
IsEntryLevelRow(row, i) ==
    /\ Range(row.keys) = {f \in Range(selected_fields) : IsEntryLevel(f)}
    /\ \A f \in Range(row.keys) :
          row.vals[f] = IF f = "entry_id" THEN EntryId(DocEntries[i], i)
                        ELSE Get(DocEntryData(i).fields, f, "")

\* C8: every entry without term records contributes one row of its own, made
\* of its entry-level columns only.
C8_TermlessEntryKeepsRow ==
    Parsed =>
        LET termless == {i \in 1..Len(DocEntries) : Termless(i)}
        IN \E g \in [termless -> 1..Len(terms_data)] :
              /\ \A i, j \in termless : i # j => g[i] # g[j]
              /\ \A i \in termless : IsEntryLevelRow(terms_data[g[i]], i)

\* C9: every row has a value in every column of the frame, the empty string
\* where the entry did not produce the column.
C9_MissingCellsAreEmptyStrings ==
    pc = "done" =>
        LET original == OriginalColumns
        IN \A r \in 1..Len(terms_data) :
               /\ Len(df.cells[r]) = Len(df.columns)
               /\ \A c \in 1..Len(original) :
                     /\ ~df.cells[r][c].na
                     /\ ~HasKey(terms_data[r], original[c]) => df.cells[r][c] = Cell("")

\* a list with its first two elements exchanged, with its first element
\* moved to the end, and reversed
SwapFirstTwo(xs) == IF Len(xs) < 2 THEN xs ELSE <<xs[2], xs[1]>> \o SubSeq(xs, 3, Len(xs))
Rotate(xs) == IF Len(xs) = 0 THEN xs ELSE Tail(xs) \o <<Head(xs)>>
Reverse(xs) == [k \in 1..Len(xs) |-> xs[Len(xs) + 1 - k]]

\* rearrangements of a list: the exchange of the first two elements and the
\* rotation (together they generate all permutations), and the reversal,
\* without the list itself
Rearrangements(xs) == {SwapFirstTwo(xs), Rotate(xs), Reverse(xs)} \ {xs}

\* C10 as stated: a rearrangement of the selected fields leaves the key order
\* of every row and the column list unchanged.
C10_ColumnOrderIndependent ==
    pc = "parsed" =>
        \A p \in Rearrangements(selected_fields) :
            LET rows == ParseRows(doc, p)
            IN /\ Len(rows) = Len(terms_data)
               /\ \A r \in 1..Len(rows) : rows[r].keys = terms_data[r].keys
               /\ UnionColumns(rows) = UnionColumns(terms_data)

\* the lists of a list, one after the other
RECURSIVE Concat(_)
Concat(lists) == IF Len(lists) = 0 THEN << >> ELSE Head(lists) \o Concat(Tail(lists))

\* a list without the elements that occur earlier in it
FirstSeen(xs) ==
    Concat([k \in 1..Len(xs) |->
               IF \E j \in 1..(k - 1) : xs[j] = xs[k] THEN << >> ELSE <<xs[k]>>])

\* the column names in the order the flattener makes them for an entry under
\* a selection: entry_id, the entry_* fields in the order of the selection,
\* then, language after language and term after term, the column of every
\* other field in the order of the selection
GeneratedColumns(entry_data, selected) ==
    LET term_fields == SelectSeq(selected, LAMBDA f : ~IsEntryLevel(f))
        languages == entry_data.languages
        OfTerm(lang_code, term_idx) ==
            [k \in 1..Len(term_fields) |-> ColName(lang_code, term_fields[k], term_idx)]
        OfLanguage(lang_code) ==
            Concat([n \in 1..Len(languages.vals[lang_code]) |-> OfTerm(lang_code, n - 1)])
    IN (IF "entry_id" \in Range(selected) THEN <<"entry_id">> ELSE << >>)
       \o SelectSeq(selected, LAMBDA f : StartsWith(f, "entry_") /\ f # "entry_id")
       \o Concat([l \in 1..Len(languages.keys) |-> OfLanguage(languages.keys[l])])

\* C10 amended: the rows made under a rearrangement of the selected fields
\* have the same set of columns and the same values, row by row, and the
\* table has the same set of columns; under every order of the selection,
\* the columns of a row are in the order in which the flattener first makes
\* their names.
C10_ContentOrderIndependent ==
    pc = "parsed" =>
        /\ \A r \in 1..Len(terms_data) :
               terms_data[r].keys
                   = FirstSeen(GeneratedColumns(entries_data.vals[entries_data.keys[r]],
                                                selected_fields))
        /\ \A p \in Rearrangements(selected_fields) :
               LET entries == ParsedEntries(doc, p, namespace).entries
                   rows == FlattenEntriesToRows(entries, p)
               IN /\ Len(rows) = Len(terms_data)
                  /\ \A r \in 1..Len(rows) :
                        /\ Range(rows[r].keys) = Range(terms_data[r].keys)
                        /\ rows[r].vals = terms_data[r].vals
                        /\ rows[r].keys
                              = FirstSeen(GeneratedColumns(entries.vals[entries.keys[r]], p))
                  /\ Range(UnionColumns(rows)) = Range(UnionColumns(terms_data))

\* the two note fields of the entry E1 selected: the column en_termNote_x_2
\* is made for the first term and again for the second, and keeps its place
\* before en_termNote_x_2_2; the exchange of the two fields changes the order
\* of the columns
C10_Witness ==
    /\ pc = "parsed"
    /\ selected_fields = <<"termNote_x", "termNote_x_2">>
    /\ Len(terms_data) = 2
    /\ terms_data[1].keys = <<"en_termNote_x", "en_termNote_x_2", "en_termNote_x_2_2">>
    /\ ParseRows(doc, Reverse(selected_fields))[1].keys
          = <<"en_termNote_x_2", "en_termNote_x", "en_termNote_x_2_2">>

\* the discovery has run
Scanned == mode # ""

\* C11: _scan_available_fields returns normally on every document, with
\* entry_id, language and term among the available fields, and with exactly
\* the fallback set when ET.parse rejects the document or the search for
\* its entries raises.
C11_ScanFailsSoft ==
    Scanned =>
        /\ {"entry_id", "language", "term"} \subseteq available_fields
        /\ (~doc.wellformed \/ RegisterRaises(doc.root) \/ TermEntries(doc.root).error # "")
              => available_fields = FallbackFields

\* an interactive run on a document ET.parse reads, in which the search for
\* the entries in the default namespace raises: the discovery has returned
\* the fallback set and the user has selected two of its fields
C11_Witness ==
    /\ pc = "configured"
    /\ mode = "interactive"
    /\ doc.wellformed
    /\ TermEntries(doc.root).error = "TypeError"
    /\ available_fields = FallbackFields
    /\ Len(selected_fields) = 2

\* the first three elements of a list
FirstThree(xs) == SubSeq(xs, 1, IF Len(xs) < 3 THEN Len(xs) ELSE 3)

\* is the element at a path below an entry inside a term group
InTermGroup(entry, path) ==
    \E k \in 1..(Len(path) - 1) : NodeAt(entry, SubSeq(path, 1, k)).tag \in {"tig", "termGrp"}

\* the paths of the description elements of an entry
DescripPaths(entry) ==
    SelectSeq(IterPaths(entry), LAMBDA p : Contains(Lower(NodeAt(entry, p).tag), "descrip"))

\* the types of the description elements of an entry outside, and inside,
\* its term groups
EntryLevelDescripTypes(entry) ==
    LET ps == DescripPaths(entry)
    IN {AttrGet(NodeAt(entry, ps[i]), "type", "description") :
           i \in {j \in 1..Len(ps) : ~InTermGroup(entry, ps[j])}}
TermLevelDescripTypes(entry) ==
    LET ps == DescripPaths(entry)
    IN {AttrGet(NodeAt(entry, ps[i]), "type", "description") :
           i \in {j \in 1..Len(ps) : InTermGroup(entry, ps[j])}}

\* C12: the discovery adds entry_descrip_<type> exactly for the description
\* elements of the sampled entries that are outside every term group, and
\* descrip_<type> for those inside a term group.
C12_EntryDescripOutsideTermGroups ==
    Scanned =>
        LET sampled == Range(FirstThree(DocEntries))
        IN /\ {f \in available_fields : StartsWith(f, "entry_descrip_")}
                = {"entry_descrip_" \o t : t \in UNION {EntryLevelDescripTypes(e) : e \in sampled}}
           /\ \A t \in UNION {TermLevelDescripTypes(e) : e \in sampled} :
                 ("descrip_" \o t) \in available_fields

\* C13: the discovery reads the first three entries only: for a document of
\* three entries or more, the fields found are those of the document cut
\* after its third entry, and those of every document that continues the
\* three entries otherwise.
C13_ScanSamplesThreeEntries ==
    (Scanned /\ Len(DocEntries) >= 3) =>
        \A rest \in SeqsUpTo(AutoEntryPool, 1) :
            ScanAvailableFields(Document(FirstThree(DocEntries) \o rest)) = available_fields

\* a document whose fourth entry has a note of a type the discovery did not
\* find
C13_Witness ==
    /\ Scanned
    /\ Len(DocEntries) = 4
    /\ "termNote_y" \in ScanEntryFields(DocEntries[4])
    /\ "termNote_y" \notin available_fields

\* the entry-level columns of the rows: entry_id and the entry_* fields
EntryLevelColumns == {f \in Range(selected_fields) : IsEntryLevel(f)}

\* has a column name three parts or more between underscores, the last one
\* of digits (characters str.isdigit() accepts)
HasNumber(col) == LET parts == Split(col) IN Len(parts) >= 3 /\ IsDigit(parts[Len(parts)])

\* what the renamer takes for the field of a column: the name after its
\* first underscore, without the last part when this is a number
BaseField(col) ==
    LET parts == Split(col)
    IN Join(SubSeq(parts, 2, IF HasNumber(col) THEN Len(parts) - 1 ELSE Len(parts)))

\* what the renamer takes for the number of a column: the underscore and the
\* last part when this is a number
NumberSuffix(col) ==
    LET parts == Split(col)
    IN IF HasNumber(col) THEN "_" \o parts[Len(parts)] ELSE ""

\* C14 as stated: an entry-level column whose name has a mapping is renamed
\* to the mapped name.
C14_EntryLevelRenamedToMapping ==
    pc = "done" =>
        LET original == OriginalColumns
        IN \A c \in 1..Len(original) :
               (original[c] \in EntryLevelColumns /\ HasKey(field_mappings, original[c]))
                   => df.columns[c] = field_mappings.vals[original[c]]

\* C14 amended: an entry-level column whose name has a mapping is renamed to
\* the mapped name when its name after entry_ (without a number at its end)
\* is not itself a mapped field, and to entry_, the mapped name of that field
\* and the number otherwise.
C14_EntryLevelRenamedUnlessBaseMapped ==
    pc = "done" =>
        LET original == OriginalColumns
        IN \A c \in 1..Len(original) :
               (original[c] \in EntryLevelColumns /\ HasKey(field_mappings, original[c]))
                   => df.columns[c]
                        = IF HasKey(field_mappings, BaseField(original[c]))
                          THEN "entry_" \o field_mappings.vals[BaseField(original[c])]
                                        \o NumberSuffix(original[c])
                          ELSE field_mappings.vals[original[c]]

\* the entry-level description column, whose type ends in an underscore and
\* a superscript two, and the term-level description field of the type
\* before them
EntryDescripColumn == "entry_descrip_t_" \o SuperscriptTwo

\* a frame in which the user renamed the entry-level description column and
\* the field descrip_t to Headword: the column is entry_Headword and the
\* number
C14_Witness ==
    /\ pc = "done"
    /\ EntryDescripColumn \in Range(OriginalColumns)
    /\ HasKey(field_mappings, EntryDescripColumn)
    /\ field_mappings.vals[EntryDescripColumn] = "Headword"
    /\ HasKey(field_mappings, "descrip_t")
    /\ field_mappings.vals["descrip_t"] = "Headword"
    /\ RenamedColumn(OriginalColumns, EntryDescripColumn)
          = "entry_Headword_" \o SuperscriptTwo

\* the keys under which the extractor stores the text of an element
WrittenKeys(elem, selected) == Range(StoreElem(EmptyDict, elem, selected).keys)

\* C15: for every element with text of a kept term group, the extractor
\* stores the text under the key the discovery adds for the element, if
\* selected, and under no key when the discovery adds none; the language of a
\* record stays the language code of its language group.
C15_ExtractorClassifiesAsDiscovery ==
    pc = "extracted" =>
        LET terms == call_lang_info.terms
            groups == CallTermGroups
            texts == TermTexts(groups, namespace)
            first == FirstOccurrences(texts)
        IN \A n \in 1..Len(first) :
               /\ \A e \in Range(Iter(groups[first[n]])) :
                     Strip(e.text) # ""
                         => WrittenKeys(e, selected_fields)
                                = ScanElemFields(e) \cap Range(selected_fields)
               /\ terms[n].vals["language"] = LangCode(call_lang_grp)

\* C16: the p-th entry of the document is stored under its id attribute when
\* it has one and under entry_<p> otherwise, and this id is the entry_id of
\* a row when entry_id is selected.
C16_EntryIdSynthesized ==
    Parsed =>
        LET term_entries == DocEntries
        IN \A p \in 1..Len(term_entries) :
               LET entry == term_entries[p]
                   id == IF HasKey(entry.attrib, "id")
                         THEN entry.attrib.vals["id"] ELSE "entry_" \o ToStr(p)
               IN /\ HasKey(entries_data, id)
                  /\ entries_data.vals[id].entry_id = id
                  /\ "entry_id" \in Range(selected_fields)
                        => \E r \in 1..Len(terms_data) :
                              /\ HasKey(terms_data[r], "entry_id")
                              /\ terms_data[r].vals["entry_id"] = id

\* a document whose first entry has the id E1 and whose second has none: the
\* rows are those of E1 and entry_2
C16_Witness ==
    /\ Parsed
    /\ Len(DocEntries) = 2
    /\ HasKey(DocEntries[1].attrib, "id")
    /\ ~HasKey(DocEntries[2].attrib, "id")
    /\ entries_data.keys = <<"E1", "entry_2">>
    /\ Len(terms_data) = 2
    /\ HasKey(terms_data[2], "entry_id") /\ terms_data[2].vals["entry_id"] = "entry_2"

\* the row of the p-th entry of the document: the row of its entry id
RowOfEntry(p) ==
    LET id == EntryId(DocEntries[p], p)
    IN terms_data[CHOOSE r \in 1..Len(entries_data.keys) : entries_data.keys[r] = id]

\* does a row hold the columns of a term record of a language, at some term
\* index
Represented(row, lang_code, term_data) ==
    \E term_idx \in 0..Len(row.keys) :
        \A f \in TermFields :
            /\ HasKey(row, ColName(lang_code, f, term_idx))
            /\ row.vals[ColName(lang_code, f, term_idx)] = Get(term_data, f, "")

\* C17: every term record that _extract_term_info returns for a language
\* group of an entry is represented by its columns in the row of the entry.
C17_NoTermLost ==
    Parsed =>
        \A p \in 1..Len(DocEntries) :
            LET row == RowOfEntry(p)
            IN \A lg \in Range(LangGroups(DocEntries[p], namespace).groups) :
                   LET lang_info == ExtractTermInfo(lg, selected_fields, namespace)
                   IN \A n \in 1..Len(lang_info.terms) :
                          Represented(row, lang_info.language, lang_info.terms[n])

=============================================================================
